---------------------------- MODULE Spec2Model ----------------------------
(***************************************************************************)
(* A model of the password generator (password_core.py) and of the        *)
(* password analyzer (security_utils.py).                                  *)
(*                                                                         *)
(* A character is a one-character string and a Python str is a sequence of *)
(* characters, so "aB3" is <<"a", "B", "3">>.                              *)
(*                                                                         *)
(* Spec is one call of PasswordGenerator.generate, run step by step: the   *)
(* loop of _generate_password, the retry loop of _ensure_requirements and  *)
(* the two loops of _force_compliance take one step per iteration.         *)
(*                                                                         *)
(* MultipleSpec is one call of generate_multiple, whose iterations run     *)
(* generate as in Spec; MemorableSpec is one call of generate_memorable.   *)
(* DefaultsSpec is one call of generate with options that leave keys out,  *)
(* each candidate drawn in one step.                                       *)
(*                                                                         *)
(* AnalyzerSpec is analyze_strength and full_analysis on a password of the *)
(* input set, and analyze_strength again on that password with characters *)
(* of a class it lacks appended.  CommonSpec is analyze_strength on the    *)
(* common passwords in every spelling.  PolicySpec is one call of          *)
(* SecurityUtils.check_password_policy.                                    *)
(*                                                                         *)
(* SessionSpec is a caller that calls generate, generate_multiple,         *)
(* generate_memorable and analyze_strength one after the other, for ever,  *)
(* on one PasswordGenerator and one PasswordAnalyzer, passing the same     *)
(* options dictionary every time.                                          *)
(***************************************************************************)
EXTENDS Integers, Sequences, FiniteSets, TLC

VARIABLES
    pc,                   \* where the call of generate is
    options,              \* final_options of generate (caller's options merged over the defaults)
    charset,              \* the character universe of _build_charset
    password,             \* the current candidate password
    attempts,             \* _ensure_requirements: attempts
    required_chars,       \* _force_compliance: required_chars
    positions_to_replace, \* _force_compliance: positions_to_replace
    idx,                  \* _force_compliance: index of the for loop over required_chars
    pos,                  \* _force_compliance: pos
    result,               \* what generate gave its caller: NoResult, a password or an error
    via,                  \* which return statement gave the result
    text,                 \* the password given to the analyzer
    report,               \* what analyze_strength returned, NoReport before
    before,               \* the report of the password before characters were appended to it
    full,                 \* what full_analysis gave its caller: NoResult, a text or an error
    policy,               \* the policy given to check_password_policy
    verdict,              \* what check_password_policy returned
    mpc,                  \* where the call of generate_multiple is
    count,                \* generate_multiple: count
    caller_options,       \* generate_multiple: options
    passwords,            \* generate_multiple: passwords
    mresult,              \* what generate_multiple gave its caller
    wpc,                  \* where the call of generate_memorable is
    word_count,           \* generate_memorable: word_count
    separator,            \* generate_memorable: separator
    selected_words,       \* generate_memorable: selected_words
    memorable,            \* what generate_memorable gave its caller
    generator,            \* the attributes of the PasswordGenerator object
    analyzer              \* the attributes of the PasswordAnalyzer object

\* the variables of one call of generate, the analyzer's, those of
\* generate_multiple and those of generate_memorable
gvars == <<pc, options, charset, password, attempts, required_chars,
           positions_to_replace, idx, pos, result, via>>
avars == <<text, report, before, full, policy, verdict>>
mvars == <<mpc, count, caller_options, passwords, mresult>>
wvars == <<wpc, word_count, separator, selected_words, memorable>>

\* the two objects, which every call shares
svars == <<generator, analyzer>>

\* everything outside one call of generate
outer == <<avars, mvars, wvars, svars>>
vars == <<gvars, outer>>

-----------------------------------------------------------------------------
(* Bounds of the model *)

\* the longest valid password length a caller asks for
MaxLen == 2

\* The characters the random source is seen to return: one character of
\* every class that is not in similar_chars, and "O", which is.  A draw from
\* a string returns one of its characters that is in this set.
SampleChars == {"A", "O", "a", "2", "!"}

\* the custom_chars a caller passes: none, or one similar character
CustomInputs == {<<>>, <<"O">>}

\* A Python value with its type: isinstance(v, int) is v.type = "int"
PyInt(n) == [type |-> "int", val |-> n]
PyStr(n) == [type |-> "str", val |-> n]

\* the lengths a caller passes: integers around the limits, and the string "2"
LengthInputs == {PyInt(n) : n \in {-1, 0, 1001} \cup (1..MaxLen)} \cup {PyStr(2)}

-----------------------------------------------------------------------------
(* Strings *)

ToSet(s) == {s[i] : i \in DOMAIN s}

\* c in s, for a character c and a string s
In(c, s) == \E i \in DOMAIN s : s[i] = c

\* ''.join(c for c in s if c not in drop)
Without(s, drop) == SelectSeq(s, LAMBDA c : ~In(c, drop))

-----------------------------------------------------------------------------
(* PasswordGenerator.__init__ *)

default_options ==
    [length |-> PyInt(16), uppercase |-> TRUE, lowercase |-> TRUE, numbers |-> TRUE,
     symbols |-> TRUE, exclude_similar |-> FALSE, custom_chars |-> <<>>]

uppercase_chars ==
    <<"A", "B", "C", "D", "E", "F", "G", "H", "I", "J", "K", "L", "M",
      "N", "O", "P", "Q", "R", "S", "T", "U", "V", "W", "X", "Y", "Z">>

lowercase_chars ==
    <<"a", "b", "c", "d", "e", "f", "g", "h", "i", "j", "k", "l", "m",
      "n", "o", "p", "q", "r", "s", "t", "u", "v", "w", "x", "y", "z">>

number_chars == <<"0", "1", "2", "3", "4", "5", "6", "7", "8", "9">>

symbol_chars ==
    <<"!", "@", "#", "$", "%", "^", "&", "*", "(", ")", "_", "+", "-",
      "=", "[", "]", "{", "}", "|", ";", ":", ",", ".", "<", ">", "?">>

similar_chars == <<"0", "O", "1", "l", "I">>

-----------------------------------------------------------------------------
(* PasswordAnalyzer.__init__ *)

\* _load_common_passwords
common_passwords ==
    <<<<"p", "a", "s", "s", "w", "o", "r", "d">>, <<"1", "2", "3", "4", "5", "6">>, <<"p", "a", "s", "s", "w", "o", "r", "d", "1", "2", "3">>,
      <<"a", "d", "m", "i", "n">>, <<"q", "w", "e", "r", "t", "y", "1", "2", "3">>, <<"1", "2", "3", "4", "5", "6", "7", "8", "9">>,
      <<"w", "e", "l", "c", "o", "m", "e">>, <<"m", "o", "n", "k", "e", "y">>, <<"1", "2", "3", "4", "5", "6", "7", "8", "9", "0">>,
      <<"q", "w", "e", "r", "t", "y">>, <<"a", "b", "c", "1", "2", "3">>, <<"1", "1", "1", "1", "1", "1">>,
      <<"1", "2", "3", "4", "5", "6", "7", "8">>, <<"i", "n", "t", "e", "r", "n", "e", "t">>, <<"s", "e", "r", "v", "i", "c", "e">>,
      <<"w", "e", "l", "c", "o", "m", "e", "1", "2", "3">>, <<"z", "x", "c", "v", "b", "n", "m">>, <<"u", "s", "e", "r", "n", "a", "m", "e">>,
      <<"l", "o", "g", "i", "n">>, <<"m", "a", "s", "t", "e", "r">>, <<"h", "e", "l", "l", "o">>,
      <<"g", "u", "e", "s", "t">>, <<"a", "d", "m", "i", "n", "i", "s", "t", "r", "a", "t", "o", "r">>, <<"r", "o", "o", "t">>,
      <<"s", "y", "s", "t", "e", "m">>, <<"l", "e", "t", "m", "e", "i", "n">>, <<"p", "a", "s", "s">>,
      <<"s", "e", "c", "r", "e", "t">>, <<"d", "e", "f", "a", "u", "l", "t">>, <<"a", "c", "c", "e", "s", "s">> >>

common_patterns ==
    <<<<"1", "2", "3", "4", "5", "6">>, <<"p", "a", "s", "s", "w", "o", "r", "d">>, <<"a", "d", "m", "i", "n">>, <<"q", "w", "e", "r", "t", "y">>, <<"a", "b", "c">>,
      <<"1", "1", "1", "1", "1", "1">>, <<"w", "e", "l", "c", "o", "m", "e">>, <<"l", "o", "g", "i", "n">>, <<"m", "a", "s", "t", "e", "r">>, <<"s", "e", "c", "r", "e", "t">> >>

\* self of the PasswordGenerator after __init__
GeneratorAttributes ==
    [default_options |-> default_options,
     uppercase_chars |-> uppercase_chars,
     lowercase_chars |-> lowercase_chars,
     number_chars |-> number_chars,
     symbol_chars |-> symbol_chars,
     similar_chars |-> similar_chars]

\* self of the PasswordAnalyzer after __init__
AnalyzerAttributes ==
    [common_passwords |-> common_passwords, common_patterns |-> common_patterns]

-----------------------------------------------------------------------------
(* The random source *)

\* secrets.choice(s): any character of s (of those the model samples)
secrets_choice(s) == ToSet(s) \cap SampleChars

\* secrets.randbelow(n): any of 0 .. n-1
secrets_randbelow(n) == 0..(n - 1)

-----------------------------------------------------------------------------
(* generate: its pure parts *)

\* the merge the other way round, {**options, **self.default_options}: the
\* defaults win
MergeOptions_DefaultsWin(defaults, given) ==
    [k \in (DOMAIN defaults) \cup (DOMAIN given) |->
        IF k \in DOMAIN defaults THEN defaults[k] ELSE given[k]]

\* {**self.default_options, **options}
MergeOptions(defaults, given) ==
    [k \in (DOMAIN defaults) \cup (DOMAIN given) |->
        IF k \in DOMAIN given THEN given[k] ELSE defaults[k]]

\* the hard cap of _validate_options
MaxLength == 1000

\* _validate_options without the check of the hard cap
ValidateOptions_NoCap(o) ==
    IF o.length.type # "int" \/ o.length.val < 1
      THEN "ValueError: Password length must be a positive integer"
    ELSE IF ~(o.uppercase \/ o.lowercase \/ o.numbers \/ o.symbols)
            /\ o.custom_chars = <<>>
      THEN "ValueError: At least one character type must be selected"
    ELSE "ok"

\* _validate_options: the error it raises, or "ok"
ValidateOptions(o) ==
    IF o.length.type # "int" \/ o.length.val < 1
      THEN "ValueError: Password length must be a positive integer"
    ELSE IF o.length.val > MaxLength
      THEN "ValueError: Password length cannot exceed 1000 characters"
    ELSE IF ~(o.uppercase \/ o.lowercase \/ o.numbers \/ o.symbols)
            /\ o.custom_chars = <<>>
      THEN "ValueError: At least one character type must be selected"
    ELSE "ok"

\* The element of a singleton set.  {e(x) : x \in {v}} gives the value v a
\* name inside e, so that v is computed once.
The(S) == CHOOSE x \in S : TRUE

\* ''.join(c for c in s if not (c in seen or seen.add(c))): the characters
\* of s not seen at an earlier index, in order
Dedup(s) ==
    The({[k \in DOMAIN firsts |-> s[firsts[k]]] :
            firsts \in {SelectSeq([i \in DOMAIN s |-> i],
                                  LAMBDA i : \A j \in 1..(i - 1) : s[j] # s[i])}})

\* _build_charset without the removal of duplicates of lines 100-107
BuildCharset_NoDedup(o) ==
    LET all == (IF o.uppercase THEN uppercase_chars ELSE <<>>)
               \o (IF o.lowercase THEN lowercase_chars ELSE <<>>)
               \o (IF o.numbers THEN number_chars ELSE <<>>)
               \o (IF o.symbols THEN symbol_chars ELSE <<>>)
               \o o.custom_chars
    IN  IF o.exclude_similar THEN Without(all, similar_chars) ELSE all

\* _build_charset
BuildCharset(o) ==
    LET all == (IF o.uppercase THEN uppercase_chars ELSE <<>>)
               \o (IF o.lowercase THEN lowercase_chars ELSE <<>>)
               \o (IF o.numbers THEN number_chars ELSE <<>>)
               \o (IF o.symbols THEN symbol_chars ELSE <<>>)
               \o o.custom_chars
    IN  The({Dedup(kept) :
                kept \in {IF o.exclude_similar THEN Without(all, similar_chars)
                          ELSE all}})

\* any(c in class_chars for c in password)
HasCharOf(pw, class_chars) == \E i \in DOMAIN pw : In(pw[i], class_chars)

\* _check_requirements
CheckRequirements(pw, o) ==
    /\ o.uppercase => HasCharOf(pw, uppercase_chars)
    /\ o.lowercase => HasCharOf(pw, lowercase_chars)
    /\ o.numbers => HasCharOf(pw, number_chars)
    /\ o.symbols => HasCharOf(pw, symbol_chars)

\* max_attempts of _ensure_requirements
max_attempts == 100

\* _force_compliance, lines 163-176: the lists required_chars it can build
RequiredChars(o) ==
    LET pick(flag, class_chars) ==
            IF flag THEN {<<c>> : c \in secrets_choice(class_chars)} ELSE {<<>>}
    IN  {u \o l \o n \o s : u \in pick(o.uppercase, uppercase_chars),
                            l \in pick(o.lowercase, lowercase_chars),
                            n \in pick(o.numbers, number_chars),
                            s \in pick(o.symbols, symbol_chars)}

-----------------------------------------------------------------------------
(* generate: its steps *)

NoResult == [kind |-> "none"]
NoReport == [kind |-> "none"]
NoPolicy == [kind |-> "none"]
NoVerdict == [kind |-> "none"]
NoOptions == [kind |-> "none"]
Returned(pw) == [kind |-> "password", value |-> pw]
Raised(msg) == [kind |-> "error", value |-> msg]

\* the options a caller passes
OptionInputs ==
    [length : LengthInputs, uppercase : BOOLEAN, lowercase : BOOLEAN,
     numbers : BOOLEAN, symbols : BOOLEAN, exclude_similar : BOOLEAN,
     custom_chars : CustomInputs]

\* before generate is called
GeneratorInit ==
    /\ generator = GeneratorAttributes
    /\ pc = "idle"
    /\ options = default_options
    /\ charset = <<>>
    /\ password = <<>>
    /\ attempts = 0
    /\ required_chars = <<>>
    /\ positions_to_replace = <<>>
    /\ idx = 0
    /\ pos = 0
    /\ result = NoResult
    /\ via = "none"

\* before anything of the analyzer is called on text
AnalyzerIdle ==
    /\ analyzer = AnalyzerAttributes
    /\ report = NoReport
    /\ before = NoReport
    /\ full = NoResult
    /\ policy = NoPolicy
    /\ verdict = NoVerdict

\* before generate_multiple is called
MultipleIdle ==
    /\ mpc = "idle"
    /\ count = 0
    /\ caller_options = NoOptions
    /\ passwords = <<>>
    /\ mresult = NoResult

\* before generate_memorable is called
MemorableIdle ==
    /\ wpc = "idle"
    /\ word_count = 0
    /\ separator = <<>>
    /\ selected_words = <<>>
    /\ memorable = NoResult

Init ==
    /\ GeneratorInit
    /\ text = <<>>
    /\ AnalyzerIdle
    /\ MultipleIdle
    /\ MemorableIdle

\* generate called without options
None == [type |-> "NoneType"]

\* generate without lines 53-54, the test of the universe
GenerateFrom_NoCharsetCheck(inputs) ==
    /\ pc = "idle"
    /\ \E given \in inputs :
        LET o == MergeOptions(generator.default_options,
                              IF given = None THEN generator.default_options ELSE given)
            check == ValidateOptions(o)
            cs == IF check = "ok" THEN BuildCharset(o) ELSE <<>>
        IN  /\ options' = o
            /\ charset' = cs
            /\ IF check # "ok"
                 THEN /\ result' = Raised(check)
                      /\ pc' = "done"
                      /\ via' = "validate"
               ELSE /\ pc' = "draw"
                    /\ UNCHANGED <<result, via>>
    /\ UNCHANGED <<outer, password, attempts, required_chars, positions_to_replace,
                   idx, pos>>

\* generate merging the caller's options into the defaults of the object,
\* self.default_options.update(options)
GenerateFrom_UpdateDefaults(inputs) ==
    /\ pc = "idle"
    /\ \E given \in inputs :
        LET o == MergeOptions(generator.default_options,
                              IF given = None THEN generator.default_options ELSE given)
            check == ValidateOptions(o)
            cs == IF check = "ok" THEN BuildCharset(o) ELSE <<>>
        IN  /\ generator' = [generator EXCEPT !.default_options = o]
            /\ options' = o
            /\ charset' = cs
            /\ IF check # "ok"
                 THEN /\ result' = Raised(check)
                      /\ pc' = "done"
                      /\ via' = "validate"
               ELSE IF cs = <<>>
                 THEN /\ result' = Raised("ValueError: No character types selected for password generation")
                      /\ pc' = "done"
                      /\ via' = "charset"
               ELSE /\ pc' = "draw"
                    /\ UNCHANGED <<result, via>>
    /\ UNCHANGED <<avars, mvars, wvars, analyzer, password, attempts, required_chars,
                   positions_to_replace, idx, pos>>

\* generate, lines 41-54: merge, validate, build the universe; the caller's
\* options are any of inputs
GenerateFrom(inputs) ==
    /\ pc = "idle"
    /\ \E given \in inputs :
        LET o == MergeOptions(generator.default_options,
                              IF given = None THEN generator.default_options ELSE given)
            check == ValidateOptions(o)
            cs == IF check = "ok" THEN BuildCharset(o) ELSE <<>>
        IN  /\ options' = o
            /\ charset' = cs
            /\ IF check # "ok"
                 THEN /\ result' = Raised(check)
                      /\ pc' = "done"
                      /\ via' = "validate"
               ELSE IF cs = <<>>
                 THEN /\ result' = Raised("ValueError: No character types selected for password generation")
                      /\ pc' = "done"
                      /\ via' = "charset"
               ELSE /\ pc' = "draw"
                    /\ UNCHANGED <<result, via>>
    /\ UNCHANGED <<outer, password, attempts, required_chars, positions_to_replace,
                   idx, pos>>

Generate == GenerateFrom(OptionInputs)

\* _generate_password, line 116: one more character of the password; with the
\* last one the password goes to _ensure_requirements, and when the draw was
\* a regeneration, line 132 counts it
DrawChar ==
    /\ pc \in {"draw", "redraw"}
    /\ Len(password) < options.length.val
    /\ \E c \in secrets_choice(charset) : password' = Append(password, c)
    /\ IF Len(password') = options.length.val
         THEN /\ pc' = "ensure"
              /\ attempts' = IF pc = "redraw" THEN attempts + 1 ELSE attempts
         ELSE UNCHANGED <<pc, attempts>>
    /\ UNCHANGED <<outer, options, charset, required_chars, positions_to_replace,
                   idx, pos, result, via>>

\* _ensure_requirements, line 125-127: the candidate meets the requirements
EnsureReturn ==
    /\ pc = "ensure"
    /\ attempts < max_attempts
    /\ CheckRequirements(password, options)
    /\ result' = Returned(password)
    /\ via' = IF attempts = 0 THEN "first draw" ELSE "retry"
    /\ pc' = "done"
    /\ UNCHANGED <<outer, options, charset, password, attempts, required_chars,
                   positions_to_replace, idx, pos>>

\* EnsureRetry editing the rejected candidate: it keeps all but the last
\* character and draws only that one again
EnsureRetry_EditLast ==
    /\ pc = "ensure"
    /\ attempts < max_attempts
    /\ ~CheckRequirements(password, options)
    /\ charset' = BuildCharset(options)
    /\ password' = SubSeq(password, 1, Len(password) - 1)
    /\ pc' = "redraw"
    /\ UNCHANGED <<outer, options, attempts, required_chars, positions_to_replace,
                   idx, pos, result, via>>

\* _ensure_requirements, lines 129-131: regenerate; the rejected candidate is
\* dropped here, nothing reads it again
EnsureRetry ==
    /\ pc = "ensure"
    /\ attempts < max_attempts
    /\ ~CheckRequirements(password, options)
    /\ charset' = BuildCharset(options)
    /\ password' = <<>>
    /\ pc' = "redraw"
    /\ UNCHANGED <<outer, options, attempts, required_chars, positions_to_replace,
                   idx, pos, result, via>>

\* _ensure_requirements, line 135, and _force_compliance, lines 160-176
ForceStart ==
    /\ pc = "ensure"
    /\ attempts >= max_attempts
    /\ required_chars' \in RequiredChars(options)
    /\ positions_to_replace' = <<>>
    /\ idx' = 1
    /\ pc' = "for"
    /\ UNCHANGED <<outer, options, charset, password, attempts, pos, result, via>>

\* ForceNext without the test of line 180
ForceNext_NoGuard ==
    /\ pc = "for"
    /\ idx <= Len(required_chars)
    /\ pos' \in secrets_randbelow(Len(password))
    /\ pc' = "while"
    /\ UNCHANGED <<outer, idx, options, charset, password, attempts, required_chars,
                   positions_to_replace, result, via>>

\* _force_compliance, lines 179-181: the next required character, first pos
ForceNext ==
    /\ pc = "for"
    /\ idx <= Len(required_chars)
    /\ IF Len(positions_to_replace) < Len(password)
         THEN /\ pos' \in secrets_randbelow(Len(password))
              /\ pc' = "while"
              /\ UNCHANGED idx
         ELSE /\ idx' = idx + 1
              /\ UNCHANGED <<pos, pc>>
    /\ UNCHANGED <<outer, options, charset, password, attempts, required_chars,
                   positions_to_replace, result, via>>

\* _force_compliance, lines 182-183, never looking for another position: the
\* required character goes to the first pos drawn, taken or not
ForceRedraw_Never ==
    /\ pc = "while"
    /\ In(pos, positions_to_replace)
    /\ password' = [password EXCEPT ![pos + 1] = required_chars[idx]]
    /\ positions_to_replace' = Append(positions_to_replace, pos)
    /\ idx' = idx + 1
    /\ pc' = "for"
    /\ UNCHANGED <<outer, options, charset, attempts, required_chars, pos, result, via>>

\* _force_compliance, lines 182-183: pos is taken, draw another
ForceRedraw ==
    /\ pc = "while"
    /\ In(pos, positions_to_replace)
    /\ pos' \in secrets_randbelow(Len(password))
    /\ UNCHANGED <<outer, pc, options, charset, password, attempts, required_chars,
                   positions_to_replace, idx, result, via>>

\* ForceWrite inserting the required character instead of overwriting
ForceWrite_Insert ==
    /\ pc = "while"
    /\ ~In(pos, positions_to_replace)
    /\ password' = SubSeq(password, 1, pos) \o <<required_chars[idx]>>
                    \o SubSeq(password, pos + 1, Len(password))
    /\ positions_to_replace' = Append(positions_to_replace, pos)
    /\ idx' = idx + 1
    /\ pc' = "for"
    /\ UNCHANGED <<outer, options, charset, attempts, required_chars, pos, result, via>>

\* _force_compliance, lines 185-186: pos is free, overwrite it
ForceWrite ==
    /\ pc = "while"
    /\ ~In(pos, positions_to_replace)
    /\ password' = [password EXCEPT ![pos + 1] = required_chars[idx]]
    /\ positions_to_replace' = Append(positions_to_replace, pos)
    /\ idx' = idx + 1
    /\ pc' = "for"
    /\ UNCHANGED <<outer, options, charset, attempts, required_chars, pos, result, via>>

\* _force_compliance, line 188
ForceReturn ==
    /\ pc = "for"
    /\ idx > Len(required_chars)
    /\ result' = Returned(password)
    /\ via' = "forced"
    /\ pc' = "done"
    /\ UNCHANGED <<outer, options, charset, password, attempts, required_chars,
                   positions_to_replace, idx, pos>>

Next ==
    \/ Generate
    \/ DrawChar
    \/ EnsureReturn
    \/ EnsureRetry
    \/ ForceStart
    \/ ForceNext
    \/ ForceRedraw
    \/ ForceWrite
    \/ ForceReturn

Spec == Init /\ [][Next]_vars

\* The random source is fair: a search for a free position that goes on for
\* ever draws a free position at some time.
FairInputs ==
    {o \in OptionInputs : ~o.exclude_similar /\ o.custom_chars = <<>>}

FairGenerate == GenerateFrom(FairInputs)

FairNext ==
    \/ FairGenerate
    \/ DrawChar
    \/ EnsureReturn
    \/ EnsureRetry
    \/ ForceStart
    \/ ForceNext
    \/ ForceRedraw
    \/ ForceWrite
    \/ ForceReturn

FairSpec ==
    /\ Init
    /\ [][FairNext]_vars
    /\ WF_vars(FairNext)
    /\ WF_vars(ForceRedraw /\ ~In(pos', positions_to_replace))

-----------------------------------------------------------------------------
(* generate with options that leave keys out *)

\* The options a caller passes: none at all, an empty dictionary, and
\* dictionaries with some of the keys.
DefaultsInputs ==
    {None, [k \in {} |-> TRUE]}
    \cup {[length |-> PyInt(n)] : n \in 0..MaxLen}
    \cup {[length |-> PyInt(MaxLen), numbers |-> FALSE, symbols |-> FALSE],
          [length |-> PyInt(MaxLen), uppercase |-> FALSE, exclude_similar |-> TRUE],
          [uppercase |-> FALSE, numbers |-> FALSE, symbols |-> FALSE],
          [uppercase |-> FALSE, lowercase |-> FALSE, numbers |-> FALSE, symbols |-> FALSE],
          [exclude_similar |-> TRUE],
          [custom_chars |-> <<"O">>]}

\* The candidates the random source is seen to return in one run of
\* _generate_password: the sampled characters of the universe in turn, from
\* any of them on.
SampleDraws(cs, n) ==
    LET seen == SelectSeq(cs, LAMBDA c : c \in SampleChars)
    IN  {[i \in 1..n |-> seen[((start + i - 2) % Len(seen)) + 1]] :
            start \in DOMAIN seen}

\* the caller holds its options; generate is not called yet
DefaultsInit ==
    /\ GeneratorInit
    /\ text = <<>>
    /\ AnalyzerIdle
    /\ mpc = "idle"
    /\ count = 0
    /\ caller_options \in DefaultsInputs
    /\ passwords = <<>>
    /\ mresult = NoResult
    /\ MemorableIdle

\* generate(options) with the options the caller holds
GenerateDefaults == GenerateFrom({caller_options})

\* _generate_password, line 116, as one step: all the characters of the
\* candidate; when the draw was a regeneration, line 132 counts it
DrawPassword ==
    /\ pc \in {"draw", "redraw"}
    /\ password = <<>>
    /\ password' \in SampleDraws(charset, options.length.val)
    /\ pc' = "ensure"
    /\ attempts' = IF pc = "redraw" THEN attempts + 1 ELSE attempts
    /\ UNCHANGED <<outer, options, charset, required_chars, positions_to_replace,
                   idx, pos, result, via>>

DefaultsNext ==
    \/ GenerateDefaults
    \/ DrawPassword
    \/ EnsureReturn
    \/ EnsureRetry
    \/ ForceStart
    \/ ForceNext
    \/ ForceRedraw
    \/ ForceWrite
    \/ ForceReturn

DefaultsSpec == DefaultsInit /\ [][DefaultsNext]_vars

-----------------------------------------------------------------------------
(* generate_multiple *)

\* the largest count in range generate_multiple is called with
MaxCount == 2

\* the largest count generate_multiple accepts
MaxPasswords == 10000

\* the counts a caller passes: around the limits, and the small ones
CountInputs == {-1, 0, MaxPasswords + 1} \cup (1..MaxCount)

\* The options a caller passes to generate_multiple: one class and one
\* character; two classes and two characters, which the retry loop can
\* satisfy; two classes and one character, which it cannot; a length of 0.
MultipleOptions ==
    {[length |-> PyInt(n), uppercase |-> TRUE, lowercase |-> low, numbers |-> FALSE,
      symbols |-> FALSE, exclude_similar |-> FALSE, custom_chars |-> <<>>] :
        n \in {0, 1, 2}, low \in BOOLEAN}

\* generate_multiple, lines 192-195
MultipleStart ==
    /\ mpc = "idle"
    /\ \E n \in CountInputs : \E o \in MultipleOptions :
        /\ count' = n
        /\ caller_options' = o
        /\ IF n < 1 \/ n > MaxPasswords
             THEN /\ mresult' = Raised("ValueError: Count must be between 1 and 10000")
                  /\ mpc' = "done"
             ELSE /\ mpc' = "loop"
                  /\ UNCHANGED mresult
    /\ UNCHANGED <<gvars, svars, avars, wvars, passwords>>

\* generate_multiple, lines 196-197: the next iteration calls
\* generate(options)
MultipleCall ==
    /\ mpc = "loop"
    /\ Len(passwords) < count
    /\ GenerateFrom({caller_options})

\* what MultipleCall calls runs as in Spec: DrawChar, EnsureReturn,
\* EnsureRetry, ForceStart, ForceNext, ForceRedraw, ForceWrite, ForceReturn

\* generate_multiple appending the first password only
MultipleAppend_FirstOnly ==
    /\ mpc = "loop"
    /\ pc = "done"
    /\ result.kind = "password"
    /\ passwords' = IF passwords = <<>> THEN <<result.value>> ELSE passwords
    /\ mresult' = IF passwords = <<>> THEN mresult
                   ELSE [kind |-> "passwords", value |-> passwords]
    /\ mpc' = IF passwords = <<>> THEN mpc ELSE "done"
    /\ pc' = "idle"
    /\ options' = default_options
    /\ charset' = <<>>
    /\ password' = <<>>
    /\ attempts' = 0
    /\ required_chars' = <<>>
    /\ positions_to_replace' = <<>>
    /\ idx' = 0
    /\ pos' = 0
    /\ result' = NoResult
    /\ via' = "none"
    /\ UNCHANGED <<avars, wvars, svars, count, caller_options>>

\* generate_multiple, line 197: generate returned, its password is appended
\* and its locals are gone
MultipleAppend ==
    /\ mpc = "loop"
    /\ pc = "done"
    /\ result.kind = "password"
    /\ passwords' = Append(passwords, result.value)
    /\ pc' = "idle"
    /\ options' = default_options
    /\ charset' = <<>>
    /\ password' = <<>>
    /\ attempts' = 0
    /\ required_chars' = <<>>
    /\ positions_to_replace' = <<>>
    /\ idx' = 0
    /\ pos' = 0
    /\ result' = NoResult
    /\ via' = "none"
    /\ UNCHANGED <<avars, wvars, svars, mpc, count, caller_options, mresult>>

\* generate_multiple, line 197: generate raised, and generate_multiple ends
\* in its exception
MultipleRaise ==
    /\ mpc = "loop"
    /\ pc = "done"
    /\ result.kind = "error"
    /\ mresult' = result
    /\ mpc' = "done"
    /\ UNCHANGED <<gvars, svars, avars, wvars, count, caller_options, passwords>>

\* generate_multiple, line 199
MultipleReturn ==
    /\ mpc = "loop"
    /\ pc = "idle"
    /\ Len(passwords) >= count
    /\ mresult' = [kind |-> "passwords", value |-> passwords]
    /\ mpc' = "done"
    /\ UNCHANGED <<gvars, svars, avars, wvars, count, caller_options, passwords>>

MultipleNext ==
    \/ MultipleStart
    \/ MultipleCall
    \/ DrawChar
    \/ EnsureReturn
    \/ EnsureRetry
    \/ ForceStart
    \/ ForceNext
    \/ ForceRedraw
    \/ ForceWrite
    \/ ForceReturn
    \/ MultipleAppend
    \/ MultipleRaise
    \/ MultipleReturn

MultipleSpec == Init /\ [][MultipleNext]_vars

-----------------------------------------------------------------------------
(* Characters of the analyzer: printable ASCII *)

\* the characters with the code points 32 .. 95, in order
AsciiTo95 ==
    <<" ", "!", "\"", "#", "$", "%", "&", "'", "(", ")", "*", "+", ",", "-", ".", "/",
      "0", "1", "2", "3", "4", "5", "6", "7", "8", "9", ":", ";", "<", "=", ">", "?",
      "@", "A", "B", "C", "D", "E", "F", "G", "H", "I", "J", "K", "L", "M", "N", "O",
      "P", "Q", "R", "S", "T", "U", "V", "W", "X", "Y", "Z", "[", "\\", "]", "^", "_" >>

\* the characters with the code points 97 .. 126, in order (96, the grave
\* accent, cannot be written in a string of this language and is left out)
AsciiFrom97 ==
    <<"a", "b", "c", "d", "e", "f", "g", "h", "i", "j", "k", "l", "m", "n", "o", "p",
      "q", "r", "s", "t", "u", "v", "w", "x", "y", "z", "{", "|", "}", "~" >>

\* chr(n)
chr(n) == IF n <= 95 THEN AsciiTo95[n - 31] ELSE AsciiFrom97[n - 96]

\* ord(c)
ord == [c \in ToSet(AsciiTo95) \cup ToSet(AsciiFrom97) |->
           CHOOSE n \in (32..95) \cup (97..126) : chr(n) = c]

\* str.islower, str.isupper, str.isdigit, str.isalnum of one ASCII character
islower(c) == ord[c] \in 97..122
isupper(c) == ord[c] \in 65..90
isdigit(c) == ord[c] \in 48..57
isalnum(c) == islower(c) \/ isupper(c) \/ isdigit(c)

\* str.lower
lower(s) == [i \in DOMAIN s |-> IF isupper(s[i]) THEN chr(ord[s[i]] + 32) ELSE s[i]]

\* sub in s, for strings
Contains(s, sub) ==
    \E i \in 1..(Len(s) - Len(sub) + 1) : SubSeq(s, i, i + Len(sub) - 1) = sub

Max(a, b) == IF a >= b THEN a ELSE b
Min(a, b) == IF a <= b THEN a ELSE b

-----------------------------------------------------------------------------
(* generate_memorable *)

\* the most words generate_memorable is asked for
MaxWords == 2

\* the words of generate_memorable
words ==
    <<<<"a", "p", "p", "l", "e">>,
      <<"b", "r", "i", "d", "g", "e">>,
      <<"c", "a", "n", "y", "o", "n">>,
      <<"d", "o", "l", "p", "h", "i", "n">>,
      <<"e", "a", "g", "l", "e">>,
      <<"f", "o", "r", "e", "s", "t">>,
      <<"g", "a", "r", "d", "e", "n">>,
      <<"h", "a", "r", "b", "o", "r">>,
      <<"i", "s", "l", "a", "n", "d">>,
      <<"j", "u", "n", "g", "l", "e">>,
      <<"k", "a", "y", "a", "k">>,
      <<"l", "i", "g", "h", "t", "h", "o", "u", "s", "e">>,
      <<"m", "o", "u", "n", "t", "a", "i", "n">>,
      <<"o", "c", "e", "a", "n">>,
      <<"p", "l", "a", "n", "e", "t">>,
      <<"q", "u", "a", "r", "t", "z">>,
      <<"r", "i", "v", "e", "r">>,
      <<"s", "u", "n", "s", "e", "t">>,
      <<"t", "o", "r", "n", "a", "d", "o">>,
      <<"u", "n", "i", "v", "e", "r", "s", "e">>,
      <<"v", "o", "l", "c", "a", "n", "o">>,
      <<"w", "a", "t", "e", "r", "f", "a", "l", "l">>,
      <<"z", "e", "b", "r", "a">>,
      <<"t", "h", "u", "n", "d", "e", "r">>>>

\* the words the random source is seen to return
SampleWords == {<<"a", "p", "p", "l", "e">>, <<"k", "a", "y", "a", "k">>, <<"z", "e", "b", "r", "a">>}

\* the separators a caller passes: the default, and the empty string
SeparatorInputs == {<<"-">>, <<>>}

\* the word counts a caller passes
WordCountInputs == {-1} \cup (0..MaxWords)

\* str.capitalize: the first character in uppercase, the rest in lowercase
capitalize(s) ==
    IF s = <<>> THEN <<>>
    ELSE <<(IF islower(s[1]) THEN chr(ord[s[1]] - 32) ELSE s[1])>> \o lower(Tail(s))

\* str(n) for an integer n >= 0: its decimal digits, no leading zero
RECURSIVE str(_)
str(n) ==
    IF n < 10 THEN <<chr(48 + n)>>
    ELSE Append(str(n \div 10), chr(48 + (n % 10)))

\* sep.join(list)
RECURSIVE join(_, _)
join(sep, list) ==
    IF list = <<>> THEN <<>>
    ELSE IF Len(list) = 1 THEN list[1]
    ELSE list[1] \o sep \o join(sep, Tail(list))

\* generate_memorable, lines 201-210; the caller's arguments are any of the
\* inputs
MemorableStart ==
    /\ wpc = "idle"
    /\ word_count' \in WordCountInputs
    /\ separator' \in SeparatorInputs
    /\ selected_words' = <<>>
    /\ wpc' = "loop"
    /\ UNCHANGED <<gvars, svars, avars, mvars, memorable>>

\* generate_memorable, lines 211-215: one more word
MemorableWord ==
    /\ wpc = "loop"
    /\ Len(selected_words) < word_count
    /\ \E word \in ToSet(words) \cap SampleWords :
        selected_words' = Append(selected_words, capitalize(word))
    /\ UNCHANGED <<gvars, svars, avars, mvars, wpc, word_count, separator, memorable>>

\* generate_memorable joining the number to the words with the separator
MemorableReturn_Joined ==
    /\ wpc = "loop"
    /\ Len(selected_words) >= word_count
    /\ \E number \in secrets_randbelow(1000) :
        memorable' = Returned(join(separator, Append(selected_words, str(number))))
    /\ wpc' = "done"
    /\ UNCHANGED <<gvars, svars, avars, mvars, word_count, separator, selected_words>>

\* generate_memorable, lines 218-221
MemorableReturn ==
    /\ wpc = "loop"
    /\ Len(selected_words) >= word_count
    /\ \E number \in secrets_randbelow(1000) :
        memorable' = Returned(join(separator, selected_words) \o str(number))
    /\ wpc' = "done"
    /\ UNCHANGED <<gvars, svars, avars, mvars, word_count, separator, selected_words>>

MemorableNext ==
    \/ MemorableStart
    \/ MemorableWord
    \/ MemorableReturn

MemorableSpec == Init /\ [][MemorableNext]_vars

-----------------------------------------------------------------------------
(* analyze_strength and its parts *)

\* _analyze_character_sets without the - 1 of line 74: unique_chars counts
\* as a set
AnalyzeCharacterSets_CountUnique(pw) ==
    LET notalnum(c) == ~isalnum(c)
        sets == [lowercase |-> Len(SelectSeq(pw, islower)),
                 uppercase |-> Len(SelectSeq(pw, isupper)),
                 digits |-> Len(SelectSeq(pw, isdigit)),
                 special |-> Len(SelectSeq(pw, notalnum)),
                 unique_chars |-> Cardinality(ToSet(pw))]
    IN  [lowercase |-> sets.lowercase,
         uppercase |-> sets.uppercase,
         digits |-> sets.digits,
         special |-> sets.special,
         unique_chars |-> sets.unique_chars,
         total_sets |-> Cardinality({k \in DOMAIN sets : sets[k] > 0})]

\* _analyze_character_sets; total_sets counts the five entries above it that
\* are not 0 and takes one off for unique_chars
AnalyzeCharacterSets(pw) ==
    LET notalnum(c) == ~isalnum(c)
        sets == [lowercase |-> Len(SelectSeq(pw, islower)),
                 uppercase |-> Len(SelectSeq(pw, isupper)),
                 digits |-> Len(SelectSeq(pw, isdigit)),
                 special |-> Len(SelectSeq(pw, notalnum)),
                 unique_chars |-> Cardinality(ToSet(pw))]
    IN  [lowercase |-> sets.lowercase,
         uppercase |-> sets.uppercase,
         digits |-> sets.digits,
         special |-> sets.special,
         unique_chars |-> sets.unique_chars,
         total_sets |-> Cardinality({k \in DOMAIN sets : sets[k] > 0}) - 1]

\* math.log2 of the alphabet sizes _calculate_entropy can reach, in millionths
\* of a bit, rounded down
Log2Micro ==
    10 :> 3321928 @@
    26 :> 4700439 @@
    32 :> 5000000 @@
    36 :> 5169925 @@
    42 :> 5392317 @@
    52 :> 5700439 @@
    58 :> 5857980 @@
    62 :> 5954196 @@
    68 :> 6087462 @@
    84 :> 6392317 @@
    94 :> 6554588

\* _calculate_entropy, in hundredths of a bit: round(x, 2) is the nearest
\* hundredth
CalculateEntropy(pw) ==
    LET notalnum(c) == ~isalnum(c)
        charset_size == (IF \E i \in DOMAIN pw : islower(pw[i]) THEN 26 ELSE 0)
                        + (IF \E i \in DOMAIN pw : isupper(pw[i]) THEN 26 ELSE 0)
                        + (IF \E i \in DOMAIN pw : isdigit(pw[i]) THEN 10 ELSE 0)
                        + (IF \E i \in DOMAIN pw : notalnum(pw[i]) THEN 32 ELSE 0)
    IN  IF pw = <<>> THEN 0
        ELSE IF charset_size = 0 THEN 0
        ELSE (Len(pw) * Log2Micro[charset_size] + 5000) \div 10000

\* the keyboard_patterns of _check_patterns
keyboard_patterns ==
    <<<<"q", "w", "e", "r", "t", "y">>, <<"a", "s", "d", "f">>, <<"z", "x", "c", "v">>, <<"1", "2", "3", "4">>, <<"a", "b", "c", "d">> >>

\* re.search(r'\d{4}|\d{1,2}[/\-]\d{1,2}[/\-]\d{2,4}', pw): four digits in a
\* row, or one or two digits, a separator, one or two digits, a separator
\* and two digits
DatePattern(pw) ==
    LET digit(i) == i \in DOMAIN pw /\ isdigit(pw[i])
        sep(i) == i \in DOMAIN pw /\ pw[i] \in {"/", "-"}
    IN  \/ \E i \in DOMAIN pw :
              digit(i) /\ digit(i + 1) /\ digit(i + 2) /\ digit(i + 3)
        \/ \E i \in DOMAIN pw : \E a \in 1..2 : \E b \in 1..2 :
              /\ \A k \in 0..(a - 1) : digit(i + k)
              /\ sep(i + a)
              /\ \A k \in 1..b : digit(i + a + k)
              /\ sep(i + a + b + 1)
              /\ digit(i + a + b + 2)
              /\ digit(i + a + b + 3)

\* _check_patterns searching the password as given, not password.lower()
CheckPatterns_CaseSensitive(pw) ==
    LET finding(label, pattern) == [label |-> label, pattern |-> pattern]
        common == SelectSeq(common_patterns, LAMBDA q : Contains(pw, q))
        keyboard == SelectSeq(keyboard_patterns, LAMBDA q : Contains(pw, q))
    IN  [i \in DOMAIN common |-> finding("Contains common pattern", common[i])]
        \o [i \in DOMAIN keyboard |-> finding("Contains keyboard pattern", keyboard[i])]
        \o (IF DatePattern(pw) THEN <<finding("Contains date pattern", <<>>)>> ELSE <<>>)

\* _check_patterns: the findings, in the order they are appended
CheckPatterns(pw) ==
    LET low == lower(pw)
        finding(label, pattern) == [label |-> label, pattern |-> pattern]
        common == SelectSeq(common_patterns, LAMBDA q : Contains(low, q))
        keyboard == SelectSeq(keyboard_patterns, LAMBDA q : Contains(low, q))
    IN  [i \in DOMAIN common |-> finding("Contains common pattern", common[i])]
        \o [i \in DOMAIN keyboard |-> finding("Contains keyboard pattern", keyboard[i])]
        \o (IF DatePattern(pw) THEN <<finding("Contains date pattern", <<>>)>> ELSE <<>>)

\* _check_common_passwords looking for an entry inside the password
CheckCommonPasswords_Substring(pw) ==
    \E i \in DOMAIN common_passwords : Contains(lower(pw), lower(common_passwords[i]))

\* _check_common_passwords
CheckCommonPasswords(pw) ==
    \E i \in DOMAIN common_passwords : lower(pw) = lower(common_passwords[i])

\* _check_repetition; repetition_ratio is the pair <<max_repeat, len(pw)>>
\* of its numerator and denominator
CheckRepetition(pw) ==
    LET char_counts == [c \in ToSet(pw) |-> Cardinality({i \in DOMAIN pw : pw[i] = c})]
        max_repeat == CHOOSE m \in {char_counts[c] : c \in ToSet(pw)} :
                          \A c \in ToSet(pw) : char_counts[c] <= m
    IN  IF pw = <<>> THEN [max_repeat |-> 0, repeated_chars |-> <<>>]
        ELSE [max_repeat |-> max_repeat,
              repeated_chars |-> SelectSeq(Dedup(pw), LAMBDA c : char_counts[c] > 2),
              repetition_ratio |-> <<max_repeat, Len(pw)>>]

\* _check_sequences without its second loop, lines 157-160
CheckSequences_AscendingOnly(pw) ==
    LET windows == [i \in 1..(Len(pw) - 2) |-> i]
        asc(i) == /\ ord[pw[i]] + 1 = ord[pw[i + 1]]
                  /\ ord[pw[i + 1]] + 1 = ord[pw[i + 2]]
        up == SelectSeq(windows, asc)
        finding(label, i) == [label |-> label, text |-> SubSeq(pw, i, i + 2)]
    IN  IF Len(pw) < 3 THEN <<>>
        ELSE [k \in DOMAIN up |-> finding("Ascending sequence", up[k])]

\* _check_sequences: the ascending findings, then the descending ones
CheckSequences(pw) ==
    LET windows == [i \in 1..(Len(pw) - 2) |-> i]
        asc(i) == /\ ord[pw[i]] + 1 = ord[pw[i + 1]]
                  /\ ord[pw[i + 1]] + 1 = ord[pw[i + 2]]
        desc(i) == /\ ord[pw[i]] - 1 = ord[pw[i + 1]]
                   /\ ord[pw[i + 1]] - 1 = ord[pw[i + 2]]
        up == SelectSeq(windows, asc)
        down == SelectSeq(windows, desc)
        finding(label, i) == [label |-> label, text |-> SubSeq(pw, i, i + 2)]
    IN  IF Len(pw) < 3 THEN <<>>
        ELSE [k \in DOMAIN up |-> finding("Ascending sequence", up[k])]
             \o [k \in DOMAIN down |-> finding("Descending sequence", down[k])]

\* the analysis dictionary of analyze_strength
Analysis(pw) ==
    [length |-> Len(pw),
     character_sets |-> AnalyzeCharacterSets(pw),
     entropy |-> CalculateEntropy(pw),
     patterns |-> CheckPatterns(pw),
     common_check |-> CheckCommonPasswords(pw),
     repetition |-> CheckRepetition(pw),
     sequence |-> CheckSequences(pw)]

\* the sum of _calculate_score taking 5 off once for the patterns found,
\* not 5 for each
ScoreSum_PatternsOnce(analysis) ==
    LET length == analysis.length
        char_sets == analysis.character_sets
        entropy == analysis.entropy
        repetition == analysis.repetition
    IN  (IF length >= 12 THEN 30
         ELSE IF length >= 8 THEN 20
         ELSE IF length >= 6 THEN 10
         ELSE IF length >= 4 THEN 5
         ELSE 0)
        + char_sets.total_sets * 6
        + (IF char_sets.total_sets >= 4 THEN 5 ELSE 0)
        + (IF entropy >= 6000 THEN 25
           ELSE IF entropy >= 4000 THEN 20
           ELSE IF entropy >= 2800 THEN 15
           ELSE IF entropy >= 2000 THEN 10
           ELSE IF entropy >= 1000 THEN 5
           ELSE 0)
        + (IF length > 0 THEN (char_sets.unique_chars * 10) \div length ELSE 0)
        - (IF analysis.common_check THEN 40 ELSE 0)
        - (IF analysis.patterns # <<>> THEN 5 ELSE 0)
        - (IF repetition.max_repeat > 3 THEN (repetition.max_repeat - 3) * 5 ELSE 0)
        - Len(analysis.sequence) * 5

\* _calculate_score, lines 166-214: the score before line 216 clamps it.
\* int(unique_ratio * 10) is the integer quotient: the float product is never
\* on the other side of an integer for lengths up to 1000.
ScoreSum(analysis) ==
    LET length == analysis.length
        char_sets == analysis.character_sets
        entropy == analysis.entropy
        repetition == analysis.repetition
    IN  (IF length >= 12 THEN 30
         ELSE IF length >= 8 THEN 20
         ELSE IF length >= 6 THEN 10
         ELSE IF length >= 4 THEN 5
         ELSE 0)
        + char_sets.total_sets * 6
        + (IF char_sets.total_sets >= 4 THEN 5 ELSE 0)
        + (IF entropy >= 6000 THEN 25
           ELSE IF entropy >= 4000 THEN 20
           ELSE IF entropy >= 2800 THEN 15
           ELSE IF entropy >= 2000 THEN 10
           ELSE IF entropy >= 1000 THEN 5
           ELSE 0)
        + (IF length > 0 THEN (char_sets.unique_chars * 10) \div length ELSE 0)
        - (IF analysis.common_check THEN 40 ELSE 0)
        - Len(analysis.patterns) * 5
        - (IF repetition.max_repeat > 3 THEN (repetition.max_repeat - 3) * 5 ELSE 0)
        - Len(analysis.sequence) * 5

\* _calculate_score
CalculateScore(analysis) == Max(0, Min(100, ScoreSum(analysis)))

\* _get_strength_level with the thresholds of config.STRENGTH_LEVELS
GetStrengthLevel_Config(score) ==
    IF score >= 90 THEN "Very Strong"
    ELSE IF score >= 80 THEN "Strong"
    ELSE IF score >= 60 THEN "Good"
    ELSE IF score >= 40 THEN "Fair"
    ELSE IF score >= 20 THEN "Weak"
    ELSE "Very Weak"

\* _get_strength_level
GetStrengthLevel(score) ==
    IF score >= 90 THEN "Very Strong"
    ELSE IF score >= 75 THEN "Strong"
    ELSE IF score >= 60 THEN "Good"
    ELSE IF score >= 40 THEN "Fair"
    ELSE IF score >= 20 THEN "Weak"
    ELSE "Very Weak"

\* _generate_feedback without lines 272-273, the message for no advice
GenerateFeedback_NoDefault(analysis) ==
    LET length == analysis.length
        char_sets == analysis.character_sets
        when(cond, msg) == IF cond THEN <<msg>> ELSE <<>>
    IN  (IF length < 8 THEN <<"Use at least 8 characters">>
         ELSE IF length < 12 THEN <<"Consider using 12 or more characters">>
         ELSE <<>>)
        \o when(char_sets.lowercase = 0, "Add lowercase letters")
        \o when(char_sets.uppercase = 0, "Add uppercase letters")
        \o when(char_sets.digits = 0, "Add numbers")
        \o when(char_sets.special = 0, "Add special characters")
        \o when(analysis.common_check, "Avoid common passwords")
        \o when(analysis.patterns # <<>>, "Avoid predictable patterns")
        \o when(analysis.repetition.max_repeat > 3, "Reduce character repetition")
        \o when(analysis.sequence # <<>>, "Avoid character sequences")

\* _generate_feedback with <= for < in the test of line 241
GenerateFeedback_OffByOne(analysis) ==
    LET length == analysis.length
        char_sets == analysis.character_sets
        when(cond, msg) == IF cond THEN <<msg>> ELSE <<>>
        feedback ==
            (IF length <= 8 THEN <<"Use at least 8 characters">>
             ELSE IF length < 12 THEN <<"Consider using 12 or more characters">>
             ELSE <<>>)
            \o when(char_sets.lowercase = 0, "Add lowercase letters")
            \o when(char_sets.uppercase = 0, "Add uppercase letters")
            \o when(char_sets.digits = 0, "Add numbers")
            \o when(char_sets.special = 0, "Add special characters")
            \o when(analysis.common_check, "Avoid common passwords")
            \o when(analysis.patterns # <<>>, "Avoid predictable patterns")
            \o when(analysis.repetition.max_repeat > 3, "Reduce character repetition")
            \o when(analysis.sequence # <<>>, "Avoid character sequences")
    IN  IF feedback = <<>> THEN <<"Excellent password strength!">> ELSE feedback

\* _generate_feedback
GenerateFeedback(analysis) ==
    LET length == analysis.length
        char_sets == analysis.character_sets
        when(cond, msg) == IF cond THEN <<msg>> ELSE <<>>
        feedback ==
            (IF length < 8 THEN <<"Use at least 8 characters">>
             ELSE IF length < 12 THEN <<"Consider using 12 or more characters">>
             ELSE <<>>)
            \o when(char_sets.lowercase = 0, "Add lowercase letters")
            \o when(char_sets.uppercase = 0, "Add uppercase letters")
            \o when(char_sets.digits = 0, "Add numbers")
            \o when(char_sets.special = 0, "Add special characters")
            \o when(analysis.common_check, "Avoid common passwords")
            \o when(analysis.patterns # <<>>, "Avoid predictable patterns")
            \o when(analysis.repetition.max_repeat > 3, "Reduce character repetition")
            \o when(analysis.sequence # <<>>, "Avoid character sequences")
    IN  IF feedback = <<>> THEN <<"Excellent password strength!">> ELSE feedback

\* analyze_strength without lines 39-40, the return for the empty password
AnalyzeStrength_NoEmptyCase(pw) ==
    LET analysis == Analysis(pw)
        score == CalculateScore(analysis)
    IN  [kind |-> "report",
         score |-> Min(100, Max(0, score)),
         level |-> GetStrengthLevel(score),
         feedback |-> GenerateFeedback(analysis),
         details |-> analysis]

\* analyze_strength reporting the sum of _calculate_score as it is
AnalyzeStrength_NoClamp(pw) ==
    IF pw = <<>>
      THEN [kind |-> "report", score |-> 0, level |-> "Very Weak",
            feedback |-> <<"Password is empty">>]
    ELSE LET analysis == Analysis(pw)
             score == ScoreSum(analysis)
         IN  [kind |-> "report",
              score |-> score,
              level |-> GetStrengthLevel(score),
              feedback |-> GenerateFeedback(analysis),
              details |-> analysis]

\* analyze_strength
AnalyzeStrength(pw) ==
    IF pw = <<>>
      THEN [kind |-> "report", score |-> 0, level |-> "Very Weak",
            feedback |-> <<"Password is empty">>]
    ELSE LET analysis == Analysis(pw)
             score == CalculateScore(analysis)
         IN  [kind |-> "report",
              score |-> Min(100, Max(0, score)),
              level |-> GetStrengthLevel(score),
              feedback |-> GenerateFeedback(analysis),
              details |-> analysis]

\* The unit of the cracking time full_analysis prints for an entropy in
\* hundredths of a bit: 2 ** entropy / 2 / 1e9 seconds against the limits of
\* lines 329-345.  The figure in front of the unit is not modelled.
TimeEstimateUnit(entropy) ==
    IF entropy >= 7574 THEN "years, scientific"
    ELSE IF entropy >= 5581 THEN "years"
    ELSE IF entropy >= 4730 THEN "days"
    ELSE IF entropy >= 4272 THEN "hours"
    ELSE IF entropy >= 3681 THEN "minutes"
    ELSE "seconds"

\* full_analysis on an analyze_strength result: the report as its parts, or
\* the exception that ends it.  The result of the empty password has no
\* 'details' (line 40), and 2 ** entropy is a float power, which overflows
\* from 1024 bits on.
FullAnalysisOf(analysis) ==
    IF "details" \notin DOMAIN analysis
      THEN Raised("KeyError: 'details'")
    ELSE LET details == analysis.details
             marked(mark, items) == [i \in DOMAIN items |-> [mark |-> mark, item |-> items[i]]]
         IN  IF details.entropy >= 102400
               THEN Raised("OverflowError: (34, 'Numerical result out of range')")
             ELSE [kind |-> "text",
                   length |-> details.length,
                   score |-> analysis.score,
                   level |-> analysis.level,
                   character_sets |-> details.character_sets,
                   entropy |-> details.entropy,
                   common |-> IF details.common_check THEN "Yes" ELSE "No",
                   max_repeat |-> details.repetition.max_repeat,
                   patterns |-> IF details.patterns # <<>>
                                  THEN marked("warning", details.patterns)
                                ELSE <<[mark |-> "ok", item |-> "No common patterns detected"]>>,
                   sequences |-> IF details.sequence # <<>>
                                   THEN marked("warning", details.sequence)
                                 ELSE <<[mark |-> "ok", item |-> "No character sequences detected"]>>,
                   recommendations |-> [i \in DOMAIN analysis.feedback |->
                                           [mark |-> i, item |-> analysis.feedback[i]]],
                   estimate |-> IF details.entropy > 0
                                  THEN <<TimeEstimateUnit(details.entropy)>> ELSE <<>>]

\* full_analysis
FullAnalysis(pw) == FullAnalysisOf(AnalyzeStrength(pw))

-----------------------------------------------------------------------------
(* One call of analyze_strength *)

\* the most pieces a password given to the analyzer is made of
MaxPieces == 2

\* The pieces: one character of each class, an ascending and a descending
\* run, a repeated character, all four classes in 4 and in 8 characters, 12
\* different characters in two pieces, two common passwords, three
\* characters that are no run, and a common password less its last letter.
Pieces ==
    <<<<"a">>, <<"B">>, <<"3">>, <<"!">>,
      <<"a", "b", "c">>, <<"3", "2", "1">>, <<"a", "a", "a", "a">>, <<"a", "B", "3", "!">>,
      <<"a", "B", "3", "!", "a", "B", "3", "!">>, <<"k", "Q", "2", "$", "m", "W", "9", "&">>, <<"X", "y", "7", "#">>, <<"p", "a", "s", "s", "w", "o", "r", "d">>,
      <<"1", "2", "3", "4", "5", "6">>,
      <<"a", "c", "1">>, <<"P", "A", "S", "S", "W", "O", "R">>,
      <<"Q", "w", "E", "r", "T", "y">>, <<"1", "/", "2", "/", "3", "4">> >>

\* the concatenations of n pieces
RECURSIVE Concatenations(_)
Concatenations(n) ==
    IF n = 0 THEN {<<>>}
    ELSE {s \o Pieces[i] : s \in Concatenations(n - 1), i \in DOMAIN Pieces}

\* the passwords given to analyze_strength: the empty one and every
\* concatenation of up to MaxPieces pieces
AnalyzerInputs == UNION {Concatenations(n) : n \in 0..MaxPieces}

AnalyzerInit ==
    /\ GeneratorInit
    /\ text \in AnalyzerInputs
    /\ AnalyzerIdle
    /\ MultipleIdle
    /\ MemorableIdle

\* analyze_strength(text)
Analyze ==
    /\ report = NoReport
    /\ report' = AnalyzeStrength(text)
    /\ UNCHANGED <<gvars, svars, mvars, wvars, text, before, full, policy, verdict>>

\* full_analysis(text)
AnalyzeFull ==
    /\ full = NoResult
    /\ full' = FullAnalysis(text)
    /\ UNCHANGED <<gvars, svars, mvars, wvars, text, report, before, policy, verdict>>

\* the four classes of _analyze_character_sets: has pw a character of class k
HasClass(pw, k) ==
    CASE k = "lowercase" -> \E i \in DOMAIN pw : islower(pw[i])
      [] k = "uppercase" -> \E i \in DOMAIN pw : isupper(pw[i])
      [] k = "digits" -> \E i \in DOMAIN pw : isdigit(pw[i])
      [] k = "special" -> \E i \in DOMAIN pw : ~isalnum(pw[i])

\* the characters appended to a password that has none of a class: one
\* character of the class, or a few
Extensions ==
    [lowercase |-> {<<"d">>, <<"a", "b", "c">>},
     uppercase |-> {<<"B">>, <<"A", "B", "C">>},
     digits |-> {<<"3">>, <<"4", "3", "2", "1">>},
     special |-> {<<"!">>, <<"!", "!", "!", "!">>}]

\* analyze_strength(text + extension), after analyze_strength(text), for an
\* extension of a class text has no character of
AppendMissing ==
    /\ report # NoReport
    /\ before = NoReport
    /\ \E k \in DOMAIN Extensions :
        /\ ~HasClass(text, k)
        /\ \E e \in Extensions[k] : text' = text \o e
    /\ before' = report
    /\ report' = AnalyzeStrength(text')
    /\ full' = NoResult
    /\ UNCHANGED <<gvars, svars, mvars, wvars, policy, verdict>>

AnalyzerNext ==
    \/ Analyze
    \/ AnalyzeFull
    \/ AppendMissing

AnalyzerSpec == AnalyzerInit /\ [][AnalyzerNext]_vars

-----------------------------------------------------------------------------
(* One call of analyze_strength on a common password *)

\* the spellings of s with any of its lowercase letters in uppercase
Casings(s) ==
    {[i \in DOMAIN s |-> IF i \in U THEN chr(ord[s[i]] - 32) ELSE s[i]] :
        U \in SUBSET {i \in DOMAIN s : islower(s[i])}}

\* the characters put in front of a common password, or after it
AffixChars == {"x", "1"}

\* the passwords of CommonSpec: every common password in every spelling,
\* and every common password with one more character
CommonInputs ==
    UNION {Casings(common_passwords[i]) : i \in DOMAIN common_passwords}
    \cup {<<c>> \o common_passwords[i] : c \in AffixChars, i \in DOMAIN common_passwords}
    \cup {common_passwords[i] \o <<c>> : c \in AffixChars, i \in DOMAIN common_passwords}

CommonInit ==
    /\ GeneratorInit
    /\ text \in CommonInputs
    /\ AnalyzerIdle
    /\ MultipleIdle
    /\ MemorableIdle

CommonNext == Analyze

CommonSpec == CommonInit /\ [][CommonNext]_vars

-----------------------------------------------------------------------------
(* SecurityUtils.check_password_policy *)

\* d.get(k, default)
Get(d, k, default) == IF k \in DOMAIN d THEN d[k] ELSE default

\* re.search(pattern, pw, re.IGNORECASE) for a pattern of letters and digits,
\* which stands for itself
SearchIgnoreCase(pattern, pw) == Contains(lower(pw), lower(pattern))

\* the checks of check_password_policy in their order, each with whether it
\* failed and the violation it appends
PolicyChecks(pw, p) ==
    LET min_length == Get(p, "min_length", 8)
        max_length == Get(p, "max_length", 128)
        forbidden_patterns == Get(p, "forbidden_patterns", <<>>)
        check(failed, message, arg) ==
            [failed |-> failed, violation |-> [message |-> message, arg |-> arg]]
    IN  << check(Len(pw) < min_length,
                 "Password must be at least {min_length} characters", <<min_length>>),
           check(Len(pw) > max_length,
                 "Password cannot exceed {max_length} characters", <<max_length>>),
           check(Get(p, "require_uppercase", FALSE) /\ ~\E i \in DOMAIN pw : isupper(pw[i]),
                 "Password must contain uppercase letters", <<>>),
           check(Get(p, "require_lowercase", FALSE) /\ ~\E i \in DOMAIN pw : islower(pw[i]),
                 "Password must contain lowercase letters", <<>>),
           check(Get(p, "require_numbers", FALSE) /\ ~\E i \in DOMAIN pw : isdigit(pw[i]),
                 "Password must contain numbers", <<>>),
           check(Get(p, "require_special", FALSE) /\ ~\E i \in DOMAIN pw : ~isalnum(pw[i]),
                 "Password must contain special characters", <<>>) >>
        \o [i \in DOMAIN forbidden_patterns |->
               check(SearchIgnoreCase(forbidden_patterns[i], pw),
                     "Password contains forbidden pattern: {pattern}",
                     forbidden_patterns[i])]

\* check_password_policy returning at the first check that fails
CheckPasswordPolicy_FirstOnly(pw, p) ==
    LET failed == SelectSeq(PolicyChecks(pw, p), LAMBDA c : c.failed)
    IN  [kind |-> "verdict",
         compliant |-> failed = <<>>,
         violations |-> IF failed = <<>> THEN <<>> ELSE <<failed[1].violation>>]

\* check_password_policy: compliant is set to False by every check that
\* fails, and the check appends its violation
CheckPasswordPolicy(pw, p) ==
    LET checks == PolicyChecks(pw, p)
        failed == SelectSeq(checks, LAMBDA c : c.failed)
    IN  [kind |-> "verdict",
         compliant |-> \A i \in DOMAIN checks : ~checks[i].failed,
         violations |-> [i \in DOMAIN failed |-> failed[i].violation]]

\* a policy with the keys of all its parts (no key is in two parts)
Combine(a, b) ==
    [k \in (DOMAIN a) \cup (DOMAIN b) |-> IF k \in DOMAIN a THEN a[k] ELSE b[k]]

\* a policy without keys
NoKeys == [k \in {} |-> TRUE]

\* the policies given to check_password_policy: with and without each key
PolicyInputs ==
    {Combine(lengths, Combine(classes, patterns)) :
        lengths \in {NoKeys, [min_length |-> 12], [min_length |-> 4, max_length |-> 6],
                     [max_length |-> 6]},
        classes \in {NoKeys, [require_uppercase |-> TRUE],
                     [require_special |-> TRUE, require_numbers |-> FALSE],
                     [require_uppercase |-> TRUE, require_lowercase |-> TRUE,
                      require_numbers |-> TRUE, require_special |-> TRUE]},
        patterns \in {NoKeys, [forbidden_patterns |-> << <<"a", "b", "c">> >>],
                      [forbidden_patterns |-> << <<"P", "A", "S", "S">>, <<"3", "2", "1">> >>]}}

\* the passwords given to check_password_policy: of 0, 3, 4, 7, 8 and 12
\* characters
PolicyPasswords ==
    {<<>>, <<"A", "B", "C">>, <<"a", "B", "3", "!">>,
     <<"a", "b", "c", "d", "3", "2", "1">>,
     <<"p", "a", "s", "s", "w", "o", "r", "d">>,
     <<"k", "Q", "2", "$", "m", "W", "9", "&">>,
     <<"P", "a", "s", "s", "#", "3", "2", "1", "A", "b", "c", "!">>}

PolicyInit ==
    /\ GeneratorInit
    /\ text \in PolicyPasswords
    /\ AnalyzerIdle
    /\ MultipleIdle
    /\ MemorableIdle

\* check_password_policy(text, policy)
CheckPolicy ==
    /\ verdict = NoVerdict
    /\ \E p \in PolicyInputs :
        /\ policy' = p
        /\ verdict' = CheckPasswordPolicy(text, p)
    /\ UNCHANGED <<gvars, svars, mvars, wvars, text, report, before, full>>

PolicyNext == CheckPolicy

PolicySpec == PolicyInit /\ [][PolicyNext]_vars

-----------------------------------------------------------------------------
(* A caller that makes one call after the other on the same two objects *)

\* the dictionary the caller holds and passes to every call of generate and
\* of generate_multiple: uppercase and lowercase, of length 0, 1 or 2
SessionOptions == {o \in MultipleOptions : o.lowercase}

\* the passwords the caller has analyzed
SessionTexts ==
    {<<>>, <<"a", "B", "3", "!">>, <<"p", "a", "s", "s", "w", "o", "r", "d">>}

SessionInit ==
    /\ GeneratorInit
    /\ text = <<>>
    /\ AnalyzerIdle
    /\ mpc = "idle"
    /\ count = 0
    /\ caller_options \in SessionOptions
    /\ passwords = <<>>
    /\ mresult = NoResult
    /\ MemorableIdle

\* no call is under way
Quiet ==
    /\ pc = "idle"
    /\ mpc = "idle"
    /\ wpc = "idle"
    /\ report = NoReport

\* generate has returned or raised: its locals are gone
LocalsGone ==
    /\ pc' = "idle"
    /\ options' = default_options
    /\ charset' = <<>>
    /\ password' = <<>>
    /\ attempts' = 0
    /\ required_chars' = <<>>
    /\ positions_to_replace' = <<>>
    /\ idx' = 0
    /\ pos' = 0
    /\ result' = NoResult
    /\ via' = "none"

\* generate(options) with the dictionary the caller holds
SessionGenerate == Quiet /\ GenerateFrom({caller_options})

\* generate is over, line 62 or an exception
SessionGenerated ==
    /\ mpc = "idle"
    /\ pc = "done"
    /\ LocalsGone
    /\ UNCHANGED outer

\* generate_multiple(count, options) with the dictionary the caller holds
SessionMultiple ==
    /\ Quiet
    /\ MultipleStart
    /\ caller_options' = caller_options

\* generate_multiple is over, line 199 or an exception
SessionMultipleDone ==
    /\ mpc = "done"
    /\ mpc' = "idle"
    /\ count' = 0
    /\ passwords' = <<>>
    /\ mresult' = NoResult
    /\ LocalsGone
    /\ UNCHANGED <<avars, wvars, svars, caller_options>>

\* generate_memorable(word_count, separator)
SessionMemorable == Quiet /\ MemorableStart

\* generate_memorable is over, line 221
SessionMemorableDone ==
    /\ wpc = "done"
    /\ wpc' = "idle"
    /\ word_count' = 0
    /\ separator' = <<>>
    /\ selected_words' = <<>>
    /\ memorable' = NoResult
    /\ UNCHANGED <<gvars, svars, avars, mvars>>

\* analyze_strength(password) for any of the caller's passwords
SessionAnalyze ==
    /\ Quiet
    /\ text' \in SessionTexts
    /\ report' = AnalyzeStrength(text')
    /\ UNCHANGED <<gvars, svars, mvars, wvars, before, full, policy, verdict>>

\* analyze_strength is over, line 62
SessionAnalyzed ==
    /\ report # NoReport
    /\ report' = NoReport
    /\ text' = <<>>
    /\ UNCHANGED <<gvars, svars, mvars, wvars, before, full, policy, verdict>>

SessionNext ==
    \/ SessionGenerate
    \/ DrawChar
    \/ EnsureReturn
    \/ EnsureRetry
    \/ ForceStart
    \/ ForceNext
    \/ ForceRedraw
    \/ ForceWrite
    \/ ForceReturn
    \/ SessionGenerated
    \/ SessionMultiple
    \/ MultipleCall
    \/ MultipleAppend
    \/ MultipleRaise
    \/ MultipleReturn
    \/ SessionMultipleDone
    \/ SessionMemorable
    \/ MemorableWord
    \/ MemorableReturn
    \/ SessionMemorableDone
    \/ SessionAnalyze
    \/ SessionAnalyzed

SessionSpec == SessionInit /\ [][SessionNext]_vars

-----------------------------------------------------------------------------
(* The generator's claims *)

\* the class flags that are set
EnabledClasses(o) ==
    {k \in {"uppercase", "lowercase", "numbers", "symbols"} : o[k]}

\* the characters of a class
ClassChars(k) ==
    CASE k = "uppercase" -> ToSet(uppercase_chars)
      [] k = "lowercase" -> ToSet(lowercase_chars)
      [] k = "numbers" -> ToSet(number_chars)
      [] k = "symbols" -> ToSet(symbol_chars)

\* a password was returned
ReturnedPassword == result.kind = "password"

\* C1: a returned password has exactly the requested length, on every path.
C1_ExactLength ==
    ReturnedPassword => Len(result.value) = options.length.val

\* C1's case: a password returned by the forced-compliance fallback, after
\* two overwrites.
C1_Witness ==
    /\ ReturnedPassword
    /\ via = "forced"
    /\ Len(positions_to_replace) = 2
    /\ Len(result.value) = 2

\* C2 as claimed: a returned password has a character of every enabled
\* class, whatever the length.
C2_Original ==
    ReturnedPassword =>
        \A k \in EnabledClasses(options) :
            ToSet(result.value) \cap ClassChars(k) # {}

\* C2 as amended: a returned password has a character of every enabled class
\* when the length is at least the number of enabled classes.
C2_EveryEnabledClass ==
    (ReturnedPassword /\ Cardinality(EnabledClasses(options)) <= options.length.val) =>
        \A k \in EnabledClasses(options) :
            ToSet(result.value) \cap ClassChars(k) # {}

\* C2's case: the fallback returns a password of two characters with two
\* classes enabled.
C2_Witness ==
    /\ ReturnedPassword
    /\ via = "forced"
    /\ Cardinality(EnabledClasses(options)) = 2
    /\ options.length.val = 2

\* C3: every character of a returned password is in the universe built for
\* the same options.
C3_InUniverse ==
    ReturnedPassword => ToSet(result.value) \subseteq ToSet(BuildCharset(options))

\* C4: with exclude_similar no character of a returned password is one of
\* 0, O, 1, l, I.
C4_NoSimilar ==
    (ReturnedPassword /\ options.exclude_similar) =>
        ToSet(result.value) \cap {"0", "O", "1", "l", "I"} = {}

\* the options _validate_options must reject
InvalidOptions(o) ==
    \/ o.length.type # "int"
    \/ o.length.val < 1
    \/ o.length.val > 1000
    \/ (EnabledClasses(o) = {} /\ Len(o.custom_chars) = 0)

\* C5: with a length that is no positive integer or exceeds 1000, or with no
\* character source, generate ends in a validation error, before any
\* character is drawn, and returns no password.
C5_ValidationError ==
    InvalidOptions(options) =>
        /\ pc = "done"
        /\ result.kind = "error"
        /\ via = "validate"
        /\ password = <<>>

\* C5's case: a length of 1001 with all four classes enabled was rejected.
C5_Witness ==
    /\ pc = "done"
    /\ options.length = PyInt(1001)
    /\ Cardinality(EnabledClasses(options)) = 4
    /\ result.kind = "error"

\* C6: generate terminates with a result; the retry loop runs at most 100
\* times and the search for a position always has a free position to find.
C6_Terminates ==
    /\ [](attempts <= 100)
    /\ [](pc = "while" =>
            \E p \in 0..(Len(password) - 1) : ~In(p, positions_to_replace))
    /\ <>(pc = "done" /\ result.kind # "none")

\* C6's case: after 100 regenerations the fallback drew a position that is
\* taken and has to draw again.
C6_Witness ==
    /\ pc = "while"
    /\ attempts = 100
    /\ In(pos, positions_to_replace)

-----------------------------------------------------------------------------
(* The analyzer's claims *)

\* analyze_strength has returned
Reported == report.kind = "report"

\* C7: the score of every report is an integer from 0 to 100.
C7_ScoreInRange ==
    Reported => report.score \in 0..100

\* C7's case: the penalties of a password outweigh its bonuses, and its
\* score is reported as 0.
C7_Witness ==
    /\ Reported
    /\ text # <<>>
    /\ ScoreSum(Analysis(text)) < 0
    /\ report.score = 0

\* the sum C8 gives for the details of a report, entropy in hundredths of a
\* bit
C8_Sum(d) ==
    LET counts == <<d.character_sets.lowercase, d.character_sets.uppercase,
                    d.character_sets.digits, d.character_sets.special>>
        used == Cardinality({k \in 1..4 : counts[k] # 0})
    IN  (CASE d.length >= 12 -> 30
           [] d.length \in 8..11 -> 20
           [] d.length \in 6..7 -> 10
           [] d.length \in 4..5 -> 5
           [] OTHER -> 0)
        + 6 * used
        + (IF used = 4 THEN 5 ELSE 0)
        + (CASE d.entropy >= 6000 -> 25
             [] d.entropy >= 4000 /\ d.entropy < 6000 -> 20
             [] d.entropy >= 2800 /\ d.entropy < 4000 -> 15
             [] d.entropy >= 2000 /\ d.entropy < 2800 -> 10
             [] d.entropy >= 1000 /\ d.entropy < 2000 -> 5
             [] OTHER -> 0)
        + ((10 * d.character_sets.unique_chars) \div d.length)
        - (IF d.common_check THEN 40 ELSE 0)
        - 5 * Len(d.patterns)
        - (IF d.repetition.max_repeat > 3 THEN 5 * (d.repetition.max_repeat - 3) ELSE 0)
        - 5 * Len(d.sequence)

C9_LevelFromScore ==
    Reported =>
        report.level = (CASE report.score >= 90 -> "Very Strong"
                          [] report.score \in 75..89 -> "Strong"
                          [] report.score \in 60..74 -> "Good"
                          [] report.score \in 40..59 -> "Fair"
                          [] report.score \in 20..39 -> "Weak"
                          [] OTHER -> "Very Weak")

\* C9's case: a score just above the threshold of Strong.
C9_Witness ==
    /\ Reported
    /\ report.score \in 75..79
    /\ report.level = "Strong"

\* C10: for the empty password the report has score 0, level Very Weak and
\* exactly one feedback item.
C10_EmptyPassword ==
    (Reported /\ text = <<>>) =>
        /\ report.score = 0
        /\ report.level = "Very Weak"
        /\ Len(report.feedback) = 1

\* C10's case: the empty password was analyzed.
C10_Witness ==
    /\ Reported
    /\ text = <<>>
    /\ report.feedback = <<"Password is empty">>

\* C11: no analyzer operation ends in an error on a string: analyze_strength
\* and full_analysis both return a result, for the empty string too.
C11_NeverFails ==
    /\ report.kind # "error"
    /\ full.kind # "error"

\* C12: appending characters of a class the password has none of gives a
\* score that is not below the score of the password before.
C12_Monotone ==
    before.kind = "report" => report.score >= before.score

\* two characters that are equal, or the two cases of one letter
SameIgnoringCase(c, d) ==
    \/ c = d
    \/ isupper(c) /\ ord[d] = ord[c] + 32
    \/ isupper(d) /\ ord[c] = ord[d] + 32

\* pw is an entry of the common-password list, ignoring case
IsCommonEntry(pw) ==
    \E i \in DOMAIN common_passwords :
        /\ Len(pw) = Len(common_passwords[i])
        /\ \A k \in DOMAIN pw : SameIgnoringCase(pw[k], common_passwords[i][k])

\* C13: a password that is an entry of the common-password list, ignoring
\* case, is flagged as common, has 40 taken off its score and is Very Weak
\* or Weak; a password that is no entry is not flagged, also when an entry
\* is a part of it.
C13_CommonFlagged ==
    Reported =>
        /\ report.details.common_check <=> IsCommonEntry(text)
        /\ IsCommonEntry(text) =>
              /\ report.score =
                    Max(0, C8_Sum([report.details EXCEPT !.common_check = FALSE]) - 40)
              /\ report.level \in {"Very Weak", "Weak"}

\* C13's case: "AdmInisTRator" is flagged as common, and Weak with the
\* highest score a common password has.
C13_Witness ==
    /\ Reported
    /\ text = <<"A", "d", "m", "I", "n", "i", "s", "T", "R", "a", "t", "o", "r">>
    /\ report.details.common_check
    /\ report.score = 32
    /\ report.level = "Weak"

\* check_password_policy has returned
Checked == verdict.kind = "verdict"

\* the number of rules of the policy the password violates
C14_Failures ==
    LET rule(k) == k \in DOMAIN policy /\ policy[k]
        min_length == IF "min_length" \in DOMAIN policy THEN policy.min_length ELSE 8
        max_length == IF "max_length" \in DOMAIN policy THEN policy.max_length ELSE 128
        forbidden == IF "forbidden_patterns" \in DOMAIN policy
                       THEN policy.forbidden_patterns ELSE <<>>
        matches(q) ==
            \E i \in 1..(Len(text) - Len(q) + 1) :
                \A k \in DOMAIN q : SameIgnoringCase(text[i + k - 1], q[k])
        one(b) == IF b THEN 1 ELSE 0
    IN  one(Len(text) < min_length)
        + one(Len(text) > max_length)
        + one(rule("require_uppercase") /\ ~HasClass(text, "uppercase"))
        + one(rule("require_lowercase") /\ ~HasClass(text, "lowercase"))
        + one(rule("require_numbers") /\ ~HasClass(text, "digits"))
        + one(rule("require_special") /\ ~HasClass(text, "special"))
        + Cardinality({i \in DOMAIN forbidden : matches(forbidden[i])})

\* C14: check_password_policy reports every violated rule: the violations
\* are as many as the checks that fail (minimum length, maximum length,
\* each required class, each forbidden pattern, matched ignoring case), and
\* compliant is true exactly when there is none; a minimum length of 12 on a
\* password of 8 characters gives compliant false and the violation of the
\* minimum length.
C14_EveryViolation ==
    Checked =>
        /\ Len(verdict.violations) = C14_Failures
        /\ verdict.compliant <=> verdict.violations = <<>>
        /\ (Get(policy, "min_length", 8) = 12 /\ Len(text) = 8) =>
              /\ ~verdict.compliant
              /\ \E i \in DOMAIN verdict.violations :
                    verdict.violations[i].message
                        = "Password must be at least {min_length} characters"

\* C14's case: a password of 8 lowercase letters against a policy with a
\* minimum length of 12 that requires all four classes: four violations.
C14_Witness ==
    /\ Checked
    /\ Len(text) = 8
    /\ Get(policy, "min_length", 8) = 12
    /\ Get(policy, "require_special", FALSE)
    /\ Len(verdict.violations) = 4
    /\ ~verdict.compliant

\* generate accepts the options
Accepted(o) ==
    /\ o.length.type = "int"
    /\ o.length.val \in 1..1000
    /\ EnabledClasses(o) # {} \/ o.custom_chars # <<>>

\* C15: generate_multiple with a count from 1 to 10000 returns exactly
\* count passwords, each made by a call of generate of its own with the
\* caller's options; with a count below 1 or above 10000 it ends in a
\* validation error before any password is generated.
C15_ExactlyCount ==
    /\ (mpc # "idle" /\ (count < 1 \/ count > 10000)) =>
          /\ mpc = "done"
          /\ mresult.kind = "error"
          /\ passwords = <<>>
          /\ pc = "idle"
    /\ (mpc = "done" /\ count \in 1..10000 /\ Accepted(caller_options)) =>
          /\ mresult.kind = "passwords"
          /\ Len(mresult.value) = count
    /\ (mpc = "loop" /\ pc # "idle") =>
          /\ options = caller_options
          /\ Len(passwords) < count
    /\ (mpc = "loop" /\ pc = "draw") => attempts = 0
    /\ \A i \in DOMAIN passwords : Len(passwords[i]) = caller_options.length.val

\* C15's case: a count of 2 returned a list of two different passwords.
C15_Witness ==
    /\ mpc = "done"
    /\ count = 2
    /\ mresult.kind = "passwords"
    /\ Len(mresult.value) = 2
    /\ mresult.value[1] # mresult.value[2]

\* the decimal digits of n, for n from 0 to 999
C16_Digits(n) ==
    LET digit(d) == chr(48 + d)
    IN  IF n <= 9 THEN <<digit(n)>>
        ELSE IF n <= 99 THEN <<digit(n \div 10), digit(n % 10)>>
        ELSE <<digit(n \div 100), digit((n \div 10) % 10), digit(n % 10)>>

\* w is a word of the list with its first letter in uppercase
C16_ListedWord(w) ==
    \E i \in DOMAIN words :
        /\ Len(w) = Len(words[i])
        /\ ord[w[1]] = ord[words[i][1]] - 32
        /\ \A k \in 2..Len(w) : w[k] = words[i][k]

\* the words of ws, with sep after each but the last
RECURSIVE C16_Joined(_, _)
C16_Joined(ws, sep) ==
    IF ws = <<>> THEN <<>>
    ELSE IF Len(ws) = 1 THEN ws[1]
    ELSE C16_Joined(SubSeq(ws, 1, Len(ws) - 1), sep) \o sep \o ws[Len(ws)]

\* the decimal digits of the integers from 0 to 999
C16_Suffixes == {C16_Digits(n) : n \in 0..999}

\* C16: generate_memorable returns word_count words of the 24-word list,
\* each with its first letter in uppercase, with the separator between
\* them, and right after them the decimal digits of an integer from 0 to
\* 999.
C16_Memorable ==
    (wpc = "done" /\ word_count >= 0) =>
        /\ memorable.kind = "password"
        /\ Len(selected_words) = word_count
        /\ \A i \in DOMAIN selected_words : C16_ListedWord(selected_words[i])
        /\ LET head == C16_Joined(selected_words, separator)
           IN  /\ Len(memorable.value) > Len(head)
               /\ SubSeq(memorable.value, 1, Len(head)) = head
               /\ SubSeq(memorable.value, Len(head) + 1, Len(memorable.value))
                      \in C16_Suffixes

\* C16's case: two words with the default separator and a number of two
\* digits.
C16_Witness ==
    /\ wpc = "done"
    /\ memorable.kind = "password"
    /\ memorable.value = <<"Z", "e", "b", "r", "a", "-", "A", "p", "p", "l", "e", "4", "2">>

\* the windows of three characters of text whose code points go up by one
\* (step 1) or down by one (step -1) from each character to the next
C17_Runs(step) ==
    {i \in 1..(Len(text) - 2) :
        /\ ord[text[i + 1]] - ord[text[i]] = step
        /\ ord[text[i + 2]] - ord[text[i + 1]] = step}

\* C17: the sequence detector records one finding for each window of three
\* characters with consecutive ascending or consecutive descending code
\* points, with the window's characters, and nothing else; a password of
\* fewer than 3 characters has no finding.
C17_Sequences ==
    (Reported /\ text # <<>>) =>
        LET found == report.details.sequence
        IN  /\ Len(found) = Cardinality(C17_Runs(1)) + Cardinality(C17_Runs(-1))
            /\ \A i \in C17_Runs(1) :
                  \E k \in DOMAIN found :
                      /\ found[k].label = "Ascending sequence"
                      /\ found[k].text = <<text[i], text[i + 1], text[i + 2]>>
            /\ \A i \in C17_Runs(-1) :
                  \E k \in DOMAIN found :
                      /\ found[k].label = "Descending sequence"
                      /\ found[k].text = <<text[i], text[i + 1], text[i + 2]>>
            /\ \A k \in DOMAIN found :
                  \E i \in C17_Runs(1) \cup C17_Runs(-1) :
                      found[k].text = <<text[i], text[i + 1], text[i + 2]>>
            /\ Len(text) < 3 => found = <<>>

\* C17's case: in "abc321" the detector finds "abc" and "321", and nothing
\* else.
C17_Witness ==
    /\ Reported
    /\ text = <<"a", "b", "c", "3", "2", "1">>
    /\ report.details.sequence =
          <<[label |-> "Ascending sequence", text |-> <<"a", "b", "c">>],
            [label |-> "Descending sequence", text |-> <<"3", "2", "1">>]>>

\* no advisory rule fires for the password of the report
C18_NoRuleFires ==
    /\ text # <<>>
    /\ report.details.length >= 12
    /\ report.details.character_sets.lowercase > 0
    /\ report.details.character_sets.uppercase > 0
    /\ report.details.character_sets.digits > 0
    /\ report.details.character_sets.special > 0
    /\ ~report.details.common_check
    /\ report.details.patterns = <<>>
    /\ report.details.repetition.max_repeat <= 3
    /\ report.details.sequence = <<>>

\* C18: the feedback of every report has an item; it is the positive
\* message alone exactly when no advisory rule fires, and when a rule fires
\* the positive message is not in it.
C18_Feedback ==
    Reported =>
        /\ report.feedback # <<>>
        /\ report.feedback = <<"Excellent password strength!">> <=> C18_NoRuleFires
        /\ ~C18_NoRuleFires =>
              \A i \in DOMAIN report.feedback :
                  report.feedback[i] # "Excellent password strength!"

\* C18's case: 12 different characters of all four classes get the
\* positive message.
C18_Witness ==
    /\ Reported
    /\ text = <<"k", "Q", "2", "$", "m", "W", "9", "&", "X", "y", "7", "#">>
    /\ report.feedback = <<"Excellent password strength!">>

\* the feedback of the report has the advisory
C19_Advised(msg) == \E i \in DOMAIN report.feedback : report.feedback[i] = msg

\* C19 as claimed: a non-empty password of fewer than 8 characters is told
\* to use at least 8, and one of fewer than 12 to consider 12 or more.
C19_Original ==
    (Reported /\ text # <<>>) =>
        /\ Len(text) < 8 => C19_Advised("Use at least 8 characters")
        /\ Len(text) < 12 => C19_Advised("Consider using 12 or more characters")

\* C19 as amended: a non-empty password of fewer than 8 characters is told
\* to use at least 8, and one of 8 to 11 characters to consider 12 or more.
C19_LengthAdvice ==
    (Reported /\ text # <<>>) =>
        /\ Len(text) < 8 => C19_Advised("Use at least 8 characters")
        /\ Len(text) \in 8..11 => C19_Advised("Consider using 12 or more characters")

\* C19's case: a password of 8 characters is told to consider 12 or more.
C19_Witness ==
    /\ Reported
    /\ Len(text) = 8
    /\ C19_Advised("Consider using 12 or more characters")
    /\ ~C19_Advised("Use at least 8 characters")

\* C20: the four class counts of a non-empty password add up to its
\* length, and total_sets is the number of the four that are not 0;
\* "aB3!aB3!aB3!" has a total_sets of 4 and a level of Good or higher.
C20_TotalSets ==
    (Reported /\ text # <<>>) =>
        LET sets == report.details.character_sets
            counts == <<sets.lowercase, sets.uppercase, sets.digits, sets.special>>
        IN  /\ counts[1] + counts[2] + counts[3] + counts[4] = Len(text)
            /\ sets.total_sets = Cardinality({k \in 1..4 : counts[k] # 0})
            /\ text = <<"a", "B", "3", "!", "a", "B", "3", "!", "a", "B", "3", "!">> =>
                  /\ sets.total_sets = 4
                  /\ report.level \in {"Good", "Strong", "Very Strong"}

\* C20's case: "aB3!aB3!aB3!" was analyzed; each class has 3 characters.
C20_Witness ==
    /\ Reported
    /\ text = <<"a", "B", "3", "!", "a", "B", "3", "!", "a", "B", "3", "!">>
    /\ report.details.character_sets.total_sets = 4
    /\ report.details.character_sets.unique_chars = 4
    /\ report.level = "Strong"

-----------------------------------------------------------------------------
(* The generator's claims, continued *)

\* the options pass _validate_options and leave no character to draw from:
\* no class flag, and every custom character is excluded as similar
C21_EmptyUniverse(o) ==
    /\ o.length.type = "int"
    /\ o.length.val \in 1..1000
    /\ EnabledClasses(o) = {}
    /\ o.custom_chars # <<>>
    /\ o.exclude_similar
    /\ ToSet(o.custom_chars) \subseteq {"0", "O", "1", "l", "I"}

\* C21: when the universe is empty after the exclusions, generate ends in
\* an error without drawing a character and returns no password.
C21_NoUsableCharacters ==
    (pc # "idle" /\ C21_EmptyUniverse(options)) =>
        /\ pc = "done"
        /\ result.kind = "error"
        /\ password = <<>>

\* C21's case: no class flag, exclude_similar, and "O" as the only custom
\* character: generate raised at its test of the universe.
C21_Witness ==
    /\ pc = "done"
    /\ options.custom_chars = <<"O">>
    /\ options.exclude_similar
    /\ EnabledClasses(options) = {}
    /\ options.length = PyInt(2)
    /\ via = "charset"
    /\ result = Raised("ValueError: No character types selected for password generation")

\* the password holds a character of every enabled class
C24_Satisfied(pw, o) ==
    \A k \in EnabledClasses(o) : ToSet(pw) \cap ClassChars(k) # {}

\* the forced-compliance repair has just been entered: password is still the
\* candidate it was handed
C24_RepairEntered ==
    /\ pc = "for"
    /\ idx = 1
    /\ positions_to_replace = <<>>

\* C24: the repair is applied only to a candidate that misses an enabled
\* class; a candidate that holds every enabled class is returned as drawn.
C24_RepairOnlyWhenNeeded ==
    /\ C24_RepairEntered => ~C24_Satisfied(password, options)
    /\ (pc = "ensure" /\ C24_Satisfied(password, options)) => attempts < max_attempts

\* C25: the requirement check runs only while attempts is in 0..99 and
\* attempts grows by one per regeneration, so there are at most 100 checks
\* and 100 regenerations; a regeneration starts from the empty string, draws
\* from the same universe and is complete when it is checked.
C25_BoundedFreshDraws ==
    /\ [](attempts \in 0..max_attempts)
    /\ []((pc \in {"draw", "redraw", "ensure"}) =>
            /\ ToSet(password) \subseteq ToSet(charset)
            /\ IF pc = "ensure" THEN Len(password) = options.length.val
               ELSE Len(password) < options.length.val)
    /\ [][/\ (pc = "ensure" /\ pc' \in {"done", "redraw"}) => attempts < max_attempts
          /\ (pc = "ensure" /\ pc' = "redraw") =>
                (password' = <<>> /\ charset' = charset /\ attempts' = attempts)
          /\ attempts' # attempts =>
                (pc = "redraw" /\ pc' = "ensure" /\ attempts' = attempts + 1)]_vars

\* C25's case: the 100th regeneration is drawn; no check follows it.
C25_Witness ==
    /\ pc = "ensure"
    /\ attempts = max_attempts
    /\ Len(password) = 2
    /\ options.length = PyInt(2)

\* C26: the repair never overwrites a position twice and never more
\* positions than the password has; so the k-th overwritten position still
\* holds the k-th required character.
C26_DistinctPositions ==
    /\ \A i, j \in DOMAIN positions_to_replace :
            i # j => positions_to_replace[i] # positions_to_replace[j]
    /\ Len(positions_to_replace) <= Len(password)
    /\ (pc \in {"for", "while"} \/ via = "forced") =>
            \A k \in DOMAIN positions_to_replace :
                /\ positions_to_replace[k] \in 0..(Len(password) - 1)
                /\ password[positions_to_replace[k] + 1] = required_chars[k]

\* C26's case: one position is overwritten and the position drawn for the
\* next required character is that same position.
C26_Witness ==
    /\ pc = "while"
    /\ Len(positions_to_replace) = 1
    /\ pos = positions_to_replace[1]
    /\ idx = 2

C28_Sources(o) ==
    (IF "uppercase" \in EnabledClasses(o) THEN uppercase_chars ELSE <<>>)
    \o (IF "lowercase" \in EnabledClasses(o) THEN lowercase_chars ELSE <<>>)
    \o (IF "numbers" \in EnabledClasses(o) THEN number_chars ELSE <<>>)
    \o (IF "symbols" \in EnabledClasses(o) THEN symbol_chars ELSE <<>>)
    \o o.custom_chars

\* the index of the first occurrence of c in s
C28_First(s, c) ==
    CHOOSE k \in DOMAIN s : s[k] = c /\ \A m \in 1..(k - 1) : s[m] # c

\* generate has just built the universe: nothing is drawn yet, or the
\* universe was found empty
C28_Built ==
    \/ pc = "draw" /\ password = <<>>
    \/ via = "charset"

\* C28: the universe built for the options has no duplicate, holds exactly
\* the characters of the enabled sources (less 0,O,1,l,I under
\* exclude_similar) in the order of their first occurrence, and is not empty
\* when a class flag is set.
C28_Universe ==
    C28_Built =>
        LET all == C28_Sources(options)
            banned == IF options.exclude_similar THEN {"0", "O", "1", "l", "I"} ELSE {}
        IN  /\ \A i, j \in DOMAIN charset : i # j => charset[i] # charset[j]
            /\ ToSet(charset) = ToSet(all) \ banned
            /\ \A i, j \in DOMAIN charset :
                    i < j => C28_First(all, charset[i]) < C28_First(all, charset[j])
            /\ EnabledClasses(options) # {} => charset # <<>>

\* C28's case: uppercase letters and the custom character "O", which the
\* uppercase letters already hold: the universe has 26 characters.
C28_Witness ==
    /\ pc = "draw"
    /\ password = <<>>
    /\ EnabledClasses(options) = {"uppercase"}
    /\ options.custom_chars = <<"O">>
    /\ ~options.exclude_similar
    /\ Len(charset) = 26
    /\ charset[15] = "O"

-----------------------------------------------------------------------------
(* The analyzer's claims, continued *)

\* q occurs in the analyzed password, ignoring case
C29_Matches(q) ==
    \E i \in 1..(Len(text) - Len(q) + 1) :
        \A k \in DOMAIN q : SameIgnoringCase(text[i + k - 1], q[k])

\* the analyzed password has n digits in a row from position i on
C29_Digits(i, n) ==
    \A k \in i..(i + n - 1) : k \in DOMAIN text /\ isdigit(text[k])

\* the analyzed password has a separator / or - at position i
C29_Separator(i) == i \in DOMAIN text /\ text[i] \in {"/", "-"}

\* the analyzed password has a run of four digits
C29_FourDigits == \E i \in DOMAIN text : C29_Digits(i, 4)

\* the analyzed password looks like a date: four digits, or day, month and
\* year of one or two, one or two and at least two digits between separators
C29_DateLike ==
    \/ C29_FourDigits
    \/ \E i \in DOMAIN text : \E day \in 1..2 : \E month \in 1..2 :
            /\ C29_Digits(i, day)
            /\ C29_Separator(i + day)
            /\ C29_Digits(i + day + 1, month)
            /\ C29_Separator(i + day + month + 1)
            /\ C29_Digits(i + day + month + 2, 2)

\* the patterns of the findings with one label, in their order
C29_Found(label) ==
    LET with == SelectSeq(report.details.patterns, LAMBDA f : f.label = label)
    IN  [i \in DOMAIN with |-> with[i].pattern]

\* C29: the findings are one per entry of the common-pattern list that
\* occurs in the password ignoring case, one per keyboard fragment that
\* does, and one date finding when the password looks like a date, at most;
\* each finding takes 5 off the score.
C29_PatternFindings ==
    (Reported /\ text # <<>>) =>
        LET found == report.details.patterns
            dates == C29_Found("Contains date pattern")
            rest == C8_Sum([report.details EXCEPT !.patterns = <<>>])
        IN  /\ C29_Found("Contains common pattern")
                    = SelectSeq(common_patterns, C29_Matches)
            /\ C29_Found("Contains keyboard pattern")
                    = SelectSeq(keyboard_patterns, C29_Matches)
            /\ Len(dates) <= 1
            /\ Len(dates) = 1 <=> C29_DateLike
            /\ C29_FourDigits => Len(dates) = 1
            /\ \A i \in DOMAIN found :
                    found[i].label \in {"Contains common pattern",
                                        "Contains keyboard pattern",
                                        "Contains date pattern"}
            /\ report.score = Max(0, Min(100, rest - 5 * Len(found)))

\* C29's case: "QwErTy1/2/34": qwerty is found in both lists, in mixed
\* case, and 1/2/34 as a date: three findings.
C29_Witness ==
    /\ Reported
    /\ text = <<"Q", "w", "E", "r", "T", "y", "1", "/", "2", "/", "3", "4">>
    /\ C29_Found("Contains common pattern") = << <<"q", "w", "e", "r", "t", "y">> >>
    /\ C29_Found("Contains keyboard pattern") = << <<"q", "w", "e", "r", "t", "y">> >>
    /\ Len(C29_Found("Contains date pattern")) = 1
    /\ Len(report.details.patterns) = 3

-----------------------------------------------------------------------------
(* The claims on the defaults *)

\* the value of a key that the caller leaves out
C30_Default(k) ==
    CASE k = "length" -> PyInt(16)
      [] k \in {"uppercase", "lowercase", "numbers", "symbols"} -> TRUE
      [] k = "exclude_similar" -> FALSE
      [] k = "custom_chars" -> <<>>

\* the caller passes no option: None or a dictionary without keys
C30_NoOptions == caller_options = None \/ DOMAIN caller_options = {}

\* the caller sets the flag of class k to false
C30_SwitchedOff(k) ==
    /\ caller_options # None
    /\ k \in DOMAIN caller_options
    /\ ~caller_options[k]

\* the classes the caller does not switch off
C30_Required ==
    {k \in {"uppercase", "lowercase", "numbers", "symbols"} : ~C30_SwitchedOff(k)}

\* generate runs with the caller's value of every key the caller gives and
\* the default of every other key, and validates these
C30_Merged ==
    pc # "idle" =>
        /\ DOMAIN options = {"length", "uppercase", "lowercase", "numbers",
                             "symbols", "exclude_similar", "custom_chars"}
        /\ \A k \in DOMAIN options :
                options[k] = IF caller_options # None /\ k \in DOMAIN caller_options
                               THEN caller_options[k]
                             ELSE C30_Default(k)
        /\ InvalidOptions(options) => (pc = "done" /\ via = "validate")
        /\ (pc = "done" /\ ~InvalidOptions(options) /\ charset # <<>>) => ReturnedPassword

\* C30 as claimed: the options are merged over the defaults, every class
\* the caller does not switch off is in the returned password, and without
\* options the password has 16 characters and all four classes.
C30_Original ==
    /\ C30_Merged
    /\ ReturnedPassword =>
            \A k \in C30_Required : ToSet(result.value) \cap ClassChars(k) # {}
    /\ (pc = "done" /\ C30_NoOptions) =>
            (ReturnedPassword /\ Len(result.value) = 16)

\* C30 as amended: the options are merged over the defaults, every class
\* the caller does not switch off is required, and is in the returned
\* password when the length is at least the number of required classes;
\* without options the password has 16 characters and all four classes.
C30_DefaultsApply ==
    /\ C30_Merged
    /\ pc # "idle" => EnabledClasses(options) = C30_Required
    /\ (ReturnedPassword /\ Cardinality(C30_Required) <= Len(result.value)) =>
            \A k \in C30_Required : ToSet(result.value) \cap ClassChars(k) # {}
    /\ (pc = "done" /\ C30_NoOptions) =>
            /\ ReturnedPassword
            /\ Len(result.value) = 16
            /\ \A k \in {"uppercase", "lowercase", "numbers", "symbols"} :
                    ToSet(result.value) \cap ClassChars(k) # {}

\* C30's case: generate called with an empty dictionary returned a password
\* of 16 characters.
C30_Witness ==
    /\ caller_options # None
    /\ DOMAIN caller_options = {}
    /\ ReturnedPassword
    /\ Len(result.value) = 16
    /\ options = default_options

-----------------------------------------------------------------------------
(* The claim on the state the calls share *)

=============================================================================
